---- MODULE Spec2Model ----
(***************************************************************************)
(* Model of the documentation retrieval service of src/api/engine.py:      *)
(* the IndexManager (ensure_ready, reindex, search, open, asset_path,      *)
(* docsets), the registry loader, the per-docset index build, the router   *)
(* and the snapshot store, run by parallel threads that share one manager. *)
(*                                                                         *)
(* Conventions.  An optional value (Python None / a value) is a sequence   *)
(* of length 0 or 1.  A string that the code slices, joins or hashes is a  *)
(* sequence of one-character (or one-token) strings.  A dict whose         *)
(* iteration order the code relies on is a sequence of records; any other  *)
(* dict is a function.  SHA-1 is taken to be collision free: a digest is   *)
(* modelled by the byte sequence that was fed to the hasher.              *)
(***************************************************************************)
EXTENDS Integers, Sequences, FiniteSets, TLC

VARIABLES
    settings,       \* IndexManager._settings of the running process
    registry,       \* bytes of the registry file settings.docsets_file
    docs,           \* docset id -> documentation tree under its root_path
    snapshot,       \* the file at settings.index_snapshot_path
    _state,         \* IndexManager._state (None or an IndexState)
    _revision,      \* IndexManager._revision
    _reindex_lock,  \* holder of IndexManager._reindex_lock, or "free"
    _state_lock,    \* holder of IndexManager._state_lock, or "free"
    _embed_lock,    \* holder of IndexManager._embed_lock, or "free"
    _search_cached, \* lru_cache of _search_uncached: key -> result
    _embed_query_cached, \* lru_cache of _embed_query_uncached: set of queries
    thr,            \* per thread: position in its call, arguments, locals
    result,         \* per thread: outcome of the call it finished last
    calls,          \* calls started so far (bounded by MaxCalls)
    edits,          \* environment edits so far (bounded by MaxEdits)
    restarts,       \* process restarts so far (bounded by MaxRestarts)
    fn_call,        \* a direct call of one function of engine.py: its arguments
    fn_result       \* the value that call returned (None while it has not)

vars == <<settings, registry, docs, snapshot, _state, _revision, _reindex_lock,
          _state_lock, _embed_lock, _search_cached, _embed_query_cached, thr,
          result, calls, edits, restarts, fn_call, fn_result>>

(***************************************************************************)
(* Bounds of the model.                                                    *)
(***************************************************************************)
MaxCalls == 3
MaxEdits == 1
MaxRestarts == 1

Threads == {"t1", "t2"}

None == <<>>
Some(x) == <<x>>
Min(a, b) == IF a <= b THEN a ELSE b

(***************************************************************************)
(* Strings.                                                                *)
(***************************************************************************)
UpperLetters ==
    <<"A", "B", "C", "D", "E", "F", "G", "H", "I", "J", "K", "L", "M", "N", "O",
      "P", "Q", "R", "S", "T", "U", "V", "W", "X", "Y", "Z">>
LowerLetters ==
    <<"a", "b", "c", "d", "e", "f", "g", "h", "i", "j", "k", "l", "m", "n", "o",
      "p", "q", "r", "s", "t", "u", "v", "w", "x", "y", "z">>

LowerChar(c) ==
    IF \E i \in 1..26 : UpperLetters[i] = c
    THEN LowerLetters[CHOOSE i \in 1..26 : UpperLetters[i] = c]
    ELSE c

\* str.lower()
Lower(s) == [i \in 1..Len(s) |-> LowerChar(s[i])]

\* k in q  (substring test)
IsSubstr(k, q) ==
    \E i \in 0..(Len(q) - Len(k)) : SubSeq(q, i + 1, i + Len(k)) = k

\* str(n) for the small integers the settings use
IntStr(n) ==
    CASE n = 0 -> "0" [] n = 1 -> "1" [] n = 2 -> "2" [] n = 3 -> "3"
      [] n = 4 -> "4" [] OTHER -> "9"

(***************************************************************************)
(* Settings (src/api/settings.py).  The processes of the model run with    *)
(* one of these configurations.                                            *)
(***************************************************************************)
PathP == <<"/", "r">>
PathPHash == <<"/", "r", "#">>

BaseSettings ==
    [docsets_file |-> PathP,
     embedding_model |-> <<"m">>,
     index_snapshot_path |-> Some("snap"),
     chunk_words |-> 2,
     chunk_overlap_words |-> 1,
     router_max_docsets |-> 3,
     bm25_top_k |-> 20,
     vector_top_k |-> 20,
     results_top_k |-> 8,
     auto_index |-> TRUE]

InitSettings ==
    { BaseSettings,
      [BaseSettings EXCEPT !.auto_index = FALSE],
      [BaseSettings EXCEPT !.index_snapshot_path = None] }

SettingsChoices ==
    { BaseSettings,
      [BaseSettings EXCEPT !.auto_index = FALSE],
      [BaseSettings EXCEPT !.docsets_file = PathPHash],
      [BaseSettings EXCEPT !.embedding_model = <<"n">>, !.auto_index = FALSE],
      [BaseSettings EXCEPT !.chunk_words = 3],
      [BaseSettings EXCEPT !.chunk_overlap_words = 0] }

(***************************************************************************)
(* The registry file.  One byte-token stands for one line of the file:     *)
(* "#" is a comment line, "A+" the [[docsets]] table of docset A enabled,  *)
(* "A-" the same table with enabled = false, "A*" docset A enabled with    *)
(* another version string.                                                 *)
(***************************************************************************)
RegistryFiles ==
    { <<"A+", "B+">>,
      <<"#", "A+", "B+">>,
      <<"A-", "B+">>,
      <<"A*", "B+">>,
      <<"A-", "B-">>,
      <<"A+", "A+">> }

\* the registry files of the runs with restarts
LifecycleRegistryFiles == { <<"A+", "B+">>, <<"#", "A+", "B+">>, <<"A-", "B+">> }

TokenId(tok) ==
    CASE tok \in {"A+", "A-", "A*"} -> "A"
      [] OTHER -> "B"

Docset(tok) ==
    [docset_id |-> TokenId(tok),
     root_path |-> <<"/", "d", TokenId(tok)>>,
     tags |-> IF TokenId(tok) = "B" THEN << <<"p", "y">> >> ELSE <<>>,
     keywords |-> IF TokenId(tok) = "A" THEN << <<"P", "d">> >> ELSE <<>>,
     version |-> IF tok = "A*" THEN Some("2") ELSE None,
     enabled |-> tok \notin {"A-", "B-"}]

(***************************************************************************)
(* Documentation trees.  docs[d] is the index of the tree found under the  *)
(* root of docset d: 0 = the root directory does not exist, 1 = a          *)
(* directory without documentation files, 2.. = parsed headings of its     *)
(* files, each with the id attribute (optional), the heading path and the  *)
(* section text.  Tree 4 has a file with two headings of the same text and *)
(* heading path and without id attribute.                                  *)
(***************************************************************************)
RawSection(file, id, heading, words) ==
    [file_path |-> file, id |-> id, heading_path |-> heading, words |-> words]

DocTree(k) ==
    CASE k = 2 -> << RawSection("f", None, <<"H">>, <<"w1">>) >>
      [] k = 3 -> << RawSection("f", None, <<"H">>, <<"w1", " ", "w2", " ", "w3">>),
                     RawSection("f", Some("i"), <<"H", "K">>, <<"w4">>) >>
      [] k = 4 -> << RawSection("f", None, <<"H">>, <<"w1">>),
                     RawSection("f", None, <<"H">>, <<"w5", " ", "w6">>),
                     RawSection("g", None, <<"H">>, <<"w7">>) >>
      [] OTHER -> <<>>

\* the trees the documentation of a docset is edited to
DocTreeIds(d) == IF d = "A" THEN {1, 2, 3} ELSE {1, 2}

\* regular files below the root of a docset whose tree is k
TreeFiles(k) ==
    CASE k = 2 -> { <<"f">> }
      [] k = 3 -> { <<"f">>, <<"img", "a">> }
      [] k = 4 -> { <<"f">>, <<"g">> }
      [] OTHER -> {}

(***************************************************************************)
(* Pure functions of engine.py.                                            *)
(***************************************************************************)

\* _snapshot_signature: the hasher is fed the resolved registry path, the
\* registry bytes and "|model|chunk_words|chunk_overlap_words", one after
\* the other; the digest is modelled by the concatenation it hashes.
_snapshot_signature(st, bytes) ==
    st.docsets_file \o bytes
      \o <<"|">> \o st.embedding_model
      \o <<"|", IntStr(st.chunk_words), "|", IntStr(st.chunk_overlap_words)>>

\* _load_docsets: [ok, docsets].  Comment lines carry no entry; a file with
\* no [[docsets]] entry, a duplicate docset_id, or an enabled docset whose
\* root_path is not an existing directory is an error.
_load_docsets(bytes, fs) ==
    LET items == SelectSeq(bytes, LAMBDA tok : tok # "#")
        all == [i \in 1..Len(items) |-> Docset(items[i])]
        duplicate == \E i, j \in 1..Len(all) :
                        i < j /\ all[i].docset_id = all[j].docset_id
        noroot == \E i \in 1..Len(all) :
                        all[i].enabled /\ fs[all[i].docset_id] = 0
    IN  IF items = <<>> \/ duplicate \/ noroot
        THEN [ok |-> FALSE, docsets |-> <<>>]
        ELSE [ok |-> TRUE, docsets |-> all]

\* A text is a sequence of tokens: a word, or " " for a run of whitespace.
\* str.split(): the words of the text
Split(text) == SelectSeq(text, LAMBDA c : c # " ")

\* " ".join(words)
RECURSIVE Join(_)
Join(words) ==
    IF Len(words) <= 1 THEN words
    ELSE <<Head(words), " ">> \o Join(Tail(words))

\* str.strip()
RECURSIVE Strip(_)
Strip(text) ==
    IF text # <<>> /\ Head(text) = " " THEN Strip(Tail(text))
    ELSE IF text # <<>> /\ text[Len(text)] = " "
         THEN Strip(SubSeq(text, 1, Len(text) - 1))
    ELSE text

\* the loop of _chunk_words that goes on after the window that holds the
\* last word, up to the last start of range(0, len(words), step)
RECURSIVE ChunkWindowsToLastStart(_, _, _, _)
ChunkWindowsToLastStart(words, start, max_words, step) ==
    LET end == Min(start + max_words, Len(words))
        chunk == Strip(Join(SubSeq(words, start + 1, end)))
        out == IF chunk # <<>> THEN <<chunk>> ELSE <<>>
    IN  IF start + step >= Len(words)
        THEN out
        ELSE out \o ChunkWindowsToLastStart(words, start + step, max_words, step)

\* _chunk_words: the loop over range(0, len(words), step)
RECURSIVE ChunkWindows(_, _, _, _)
ChunkWindows(words, start, max_words, step) ==
    LET end == Min(start + max_words, Len(words))
        chunk == Strip(Join(SubSeq(words, start + 1, end)))
        out == IF chunk # <<>> THEN <<chunk>> ELSE <<>>
    IN  IF end >= Len(words) \/ start + step >= Len(words)
        THEN out
        ELSE out \o ChunkWindows(words, start + step, max_words, step)

\* _chunk_words with windows that do not overlap: step = max_words
_chunk_words_disjoint(text, max_words, overlap_words) ==
    IF Len(Split(text)) <= max_words
    THEN <<Strip(text)>>
    ELSE ChunkWindows(Split(text), 0, max_words, max_words)

_chunk_words(text, max_words, overlap_words) ==
    IF Len(Split(text)) <= max_words
    THEN <<Strip(text)>>
    ELSE ChunkWindows(Split(text), 0, max_words, max_words - overlap_words)

\* _stable_anchor: "#sec-" + sha1(file_path | heading path)
_stable_anchor(file_path, heading_path) == <<"#sec-", file_path, heading_path>>

\* _parse_html_to_sections, for one heading of a file: the DocSection
_parse_html_to_sections(docset, raw) ==
    LET anchor == IF raw.id # None
                  THEN <<"#", raw.id[1]>>
                  ELSE _stable_anchor(raw.file_path, raw.heading_path)
    IN  [section_ref |-> <<docset.docset_id, raw.file_path, anchor, raw.heading_path>>,
         docset_id |-> docset.docset_id,
         file_path |-> raw.file_path,
         anchor |-> anchor,
         heading_path |-> raw.heading_path,
         text |-> raw.words]

\* the chunks of one section: doc_ref = docset_id : sha1(section_ref : idx)
SectionChunks(docset, section, st) ==
    LET Numbered(texts) ==
            [i \in 1..Len(texts) |->
                [doc_ref |-> <<docset.docset_id, section.section_ref, i - 1>>,
                 section_ref |-> section.section_ref,
                 chunk_index |-> i - 1,
                 text |-> texts[i]]]
    IN  CHOOSE chunks \in
            { Numbered(texts) :
                texts \in { _chunk_words(section.text, st.chunk_words,
                                         st.chunk_overlap_words) } } : TRUE

RECURSIVE AllChunks(_, _, _)
AllChunks(docset, sections, st) ==
    IF sections = <<>> THEN <<>>
    ELSE SectionChunks(docset, Head(sections), st)
            \o AllChunks(docset, Tail(sections), st)

\* a dict filled in list order: the last item with a key wins
LastIndex(keys, k) ==
    CHOOSE i \in 1..Len(keys) :
        /\ keys[i] = k
        /\ \A j \in (i + 1)..Len(keys) : keys[j] # k

\* the dict that holds items[i] under keys[i]
DictOf(keys, items) ==
    [k \in {keys[i] : i \in 1..Len(keys)} |-> items[LastIndex(keys, k)]]

\* the embedder: an opaque function of the model and of the text
Embed(st, text) == <<st.embedding_model, text>>

\* _build_docset_index without "if not chunks: raise": an index without
\* chunks is returned like any other
_build_docset_index_unchecked(docset, tree, st) ==
    LET raws == DocTree(tree)
        parsed == [i \in 1..Len(raws) |-> _parse_html_to_sections(docset, raws[i])]
        chunks == AllChunks(docset, parsed, st)
        sections == DictOf([i \in 1..Len(parsed) |-> parsed[i].section_ref], parsed)
        corpus == [i \in 1..Len(chunks) |->
                      sections[chunks[i].section_ref].heading_path \o chunks[i].text]
    IN  [ok |-> TRUE,
         index |-> Some([docset |-> docset,
                         sections |-> sections,
                         chunks |-> chunks,
                         doc_ref_to_chunk |->
                             DictOf([i \in 1..Len(chunks) |-> chunks[i].doc_ref],
                                    chunks),
                         bm25 |-> corpus,
                         embeddings |-> [i \in 1..Len(corpus) |-> Embed(st, corpus[i])]])]

\* _build_docset_index: [ok, index]; a build that yields no chunk fails
_build_docset_index(docset, tree, st) ==
    LET raws == DocTree(tree)
        parsed == [i \in 1..Len(raws) |-> _parse_html_to_sections(docset, raws[i])]
        chunks == AllChunks(docset, parsed, st)
        sections == DictOf([i \in 1..Len(parsed) |-> parsed[i].section_ref], parsed)
        corpus == [i \in 1..Len(chunks) |->
                      sections[chunks[i].section_ref].heading_path \o chunks[i].text]
    IN  IF chunks = <<>>
        THEN [ok |-> FALSE, index |-> None]
        ELSE [ok |-> TRUE,
              index |-> Some([docset |-> docset,
                              sections |-> sections,
                              chunks |-> chunks,
                              doc_ref_to_chunk |->
                                  DictOf([i \in 1..Len(chunks) |-> chunks[i].doc_ref],
                                         chunks),
                              bm25 |-> corpus,
                              embeddings |-> [i \in 1..Len(corpus) |-> Embed(st, corpus[i])]])]

\* the score of _route_docsets with keywords, tags and source_hint compared
\* as they are written, without lower()
RouteScoreCaseSensitive(docset, query, source_hint, deps) ==
    LET kw == docset.keywords
        kw_matches == SelectSeq(kw, LAMBDA k : IsSubstr(k, query))
        tag_matches == SelectSeq(docset.tags, LAMBDA t : IsSubstr(t, query))
        dep_matches == SelectSeq(kw, LAMBDA k : \E d \in deps : IsSubstr(k, d))
    IN  (IF source_hint # None /\ source_hint[1] = <<docset.docset_id>>
         THEN 100 ELSE 0)
        + 10 * Len(kw_matches) + 3 * Len(tag_matches) + 15 * Len(dep_matches)

\* the per-docset score of _route_docsets (dependencies: context.dependencies)
RouteScore(docset, query, source_hint, deps) ==
    LET q == Lower(query)
        ldeps == {Lower(d) : d \in deps}
        kw == docset.keywords
        kw_matches == SelectSeq(kw, LAMBDA k : IsSubstr(Lower(k), q))
        tag_matches == SelectSeq(docset.tags, LAMBDA t : IsSubstr(Lower(t), q))
        dep_matches == SelectSeq(kw, LAMBDA k : \E d \in ldeps : IsSubstr(Lower(k), d))
    IN  (IF source_hint # None /\ Lower(source_hint[1]) = Lower(<<docset.docset_id>>)
         THEN 100 ELSE 0)
        + 10 * Len(kw_matches) + 3 * Len(tag_matches) + 15 * Len(dep_matches)

\* the position in a descending sort that puts, of two items of equal score,
\* the later one first
SortedRankLaterFirst(scores, i) ==
    Cardinality({j \in 1..Len(scores) :
                    scores[j] > scores[i] \/ (scores[j] = scores[i] /\ j > i)}) + 1

\* sorted(items, key=score, reverse=True): a stable sort, so items of equal
\* score keep their order.  Position of item i in the sorted list:
SortedRank(scores, i) ==
    Cardinality({j \in 1..Len(scores) :
                    scores[j] > scores[i] \/ (scores[j] = scores[i] /\ j < i)}) + 1

StableSortDesc(items, scores) ==
    [r \in 1..Len(items) |->
        items[CHOOSE i \in 1..Len(items) : SortedRank(scores, i) = r]]

Take(s, k) == SubSeq(s, 1, Min(k, Len(s)))

\* _route_docsets: the selected docset ids (docsets: the dict of the state,
\* in insertion order)
_route_docsets(docsets, query, source_hint, deps, max_k) ==
    LET scores == [i \in 1..Len(docsets) |->
                      RouteScore(docsets[i], query, source_hint, deps)]
        ids == [i \in 1..Len(docsets) |-> docsets[i].docset_id]
        positive == SelectSeq(
                        StableSortDesc([i \in 1..Len(docsets) |-> <<ids[i], scores[i]>>], scores),
                        LAMBDA kv : kv[2] > 0)
        selected == Take([i \in 1..Len(positive) |-> positive[i][1]], max_k)
    IN  IF selected # <<>> THEN selected ELSE Take(ids, max_k)

\* sep.join(strs), for strings that are sequences of characters
RECURSIVE JoinStrings(_, _)
JoinStrings(strs, sep) ==
    IF strs = <<>> THEN <<>>
    ELSE IF Len(strs) = 1 THEN Head(strs)
    ELSE Head(strs) \o <<sep>> \o JoinStrings(Tail(strs), sep)

\* reasons[docset_id] of _route_docsets: the parts joined by " ", or
\* "fallback" when there is none.  The fixed words of a reason are tokens.
RouteReason(docset, query, source_hint, deps) ==
    LET q == Lower(query)
        ldeps == {Lower(d) : d \in deps}
        kw == docset.keywords
        kw_matches == SelectSeq(kw, LAMBDA k : IsSubstr(Lower(k), q))
        tag_matches == SelectSeq(docset.tags, LAMBDA t : IsSubstr(Lower(t), q))
        dep_matches == SelectSeq(kw, LAMBDA k : \E d \in ldeps : IsSubstr(Lower(k), d))
        reason_parts ==
            (IF source_hint # None /\ source_hint[1] # <<>>
                  /\ Lower(source_hint[1]) = Lower(<<docset.docset_id>>)
             THEN << <<"source_hint">> >> ELSE <<>>)
            \o (IF kw_matches # <<>>
                THEN << <<"keywords:">> \o JoinStrings(Take(kw_matches, 3), ",") >>
                ELSE <<>>)
            \o (IF tag_matches # <<>>
                THEN << <<"tags:">> \o JoinStrings(Take(tag_matches, 3), ",") >>
                ELSE <<>>)
            \o (IF dep_matches # <<>>
                THEN << <<"deps:">> \o JoinStrings(Take(dep_matches, 3), ",") >>
                ELSE <<>>)
        joined == Strip(JoinStrings(reason_parts, " "))
    IN  IF joined = <<>> THEN <<"fallback">> ELSE joined

\* dict lookups on the docsets of a state
DocsetIdsOf(docsets) == {docsets[i].docset_id : i \in 1..Len(docsets)}
DocsetById(docsets, id) ==
    docsets[CHOOSE i \in 1..Len(docsets) : docsets[i].docset_id = id]

\* the RoutingDecision of _route_docsets, with the scores it computed
RoutingDecision(docsets, query, source_hint, deps, max_k) ==
    LET selected == _route_docsets(docsets, query, source_hint, deps, max_k)
    IN  [selected_docsets |-> selected,
         reasons |-> [d \in {selected[i] : i \in 1..Len(selected)} |->
                        RouteReason(DocsetById(docsets, d), query, source_hint, deps)],
         scores |-> [i \in 1..Len(docsets) |->
                        RouteScore(docsets[i], query, source_hint, deps)]]

\* _retrieve_candidates on one IndexState: [ok, doc_refs].  state.docsets[id]
\* and state.indexes[id] raise KeyError for an id the state does not hold.
\* Every chunk of a selected docset is a candidate while the docset has at
\* most bm25_top_k chunks; the candidates keep the order of insertion.
RECURSIVE CandidateRefs(_, _, _)
CandidateRefs(selected, state, top) ==
    IF selected = <<>> THEN <<>>
    ELSE LET chunks == state.indexes[Head(selected)].chunks
         IN  [i \in 1..Min(top, Len(chunks)) |-> chunks[i].doc_ref]
                \o CandidateRefs(Tail(selected), state, top)

_retrieve_candidates(selected, state, st) ==
    IF \E i \in 1..Len(selected) :
            \/ selected[i] \notin DocsetIdsOf(state.docsets)
            \/ selected[i] \notin DOMAIN state.indexes
    THEN [ok |-> FALSE, doc_refs |-> <<>>]
    ELSE [ok |-> TRUE,
          doc_refs |-> CandidateRefs(selected, state,
                                     IF st.bm25_top_k >= st.vector_top_k
                                     THEN st.bm25_top_k ELSE st.vector_top_k)]

\* numpy.  An index array is a sequence of indices that count from 0; the
\* value at index j of an array is values[j + 1].
IndexPermutations(n) ==
    { p \in [1..n -> 0..(n - 1)] : \A i, j \in 1..n : i # j => p[i] # p[j] }

\* np.argsort(values), kind "quicksort": the index arrays that sort the
\* values ascending.  The sort is not stable: equal values come in any order.
argsort(values) ==
    { p \in IndexPermutations(Len(values)) :
        \A i \in 1..(Len(values) - 1) : values[p[i] + 1] <= values[p[i + 1] + 1] }

\* np.argpartition(values, kth): the index arrays with the kth smallest value
\* at position kth, no larger value before it and no smaller value after it;
\* the order inside the two partitions is undefined.
argpartition(values, kth) ==
    { p \in IndexPermutations(Len(values)) :
        \A i \in 1..Len(values) :
            /\ i < kth + 1 => values[p[i] + 1] <= values[p[kth + 1] + 1]
            /\ i > kth + 1 => values[p[i] + 1] >= values[p[kth + 1] + 1] }

\* _top_k_indices: the lists that the call can return
_top_k_indices(scores, k) ==
    LET neg == [i \in 1..Len(scores) |-> 0 - scores[i]]
        Sorted(idx) ==
            { [i \in 1..Len(idx) |-> idx[q[i] + 1]] :
                q \in argsort([i \in 1..Len(idx) |-> neg[idx[i] + 1]]) }
    IN  IF k <= 0 \/ Len(scores) = 0 THEN { <<>> }
        ELSE IF k >= Len(scores) THEN argsort(neg)
        ELSE UNION { Sorted(SubSeq(p, 1, k)) : p \in argpartition(neg, k - 1) }

\* Scores.  A raw BM25 or vector score is an integer count of units of
\* 5e-7; the 1e-6 of _minmax is MinSpread units.  A normalized value and a
\* fused score are exact fractions [num, den].
MinSpread == 2

\* _minmax that scales whenever the values differ at all
_minmax_any_spread(values) ==
    LET vmin == CHOOSE v \in {values[i] : i \in 1..Len(values)} :
                    \A i \in 1..Len(values) : v <= values[i]
        vmax == CHOOSE v \in {values[i] : i \in 1..Len(values)} :
                    \A i \in 1..Len(values) : v >= values[i]
    IN  IF values = <<>> THEN <<>>
        ELSE IF vmax - vmin < 1
        THEN [i \in 1..Len(values) |-> [num |-> 0, den |-> 1]]
        ELSE [i \in 1..Len(values) |-> [num |-> values[i] - vmin, den |-> vmax - vmin]]

\* _minmax: zeros when the values spread over less than 1e-6
_minmax(values) ==
    LET vmin == CHOOSE v \in {values[i] : i \in 1..Len(values)} :
                    \A i \in 1..Len(values) : v <= values[i]
        vmax == CHOOSE v \in {values[i] : i \in 1..Len(values)} :
                    \A i \in 1..Len(values) : v >= values[i]
    IN  IF values = <<>> THEN <<>>
        ELSE IF vmax - vmin < MinSpread
        THEN [i \in 1..Len(values) |-> [num |-> 0, den |-> 1]]
        ELSE [i \in 1..Len(values) |-> [num |-> values[i] - vmin, den |-> vmax - vmin]]

\* the dict all_candidates of _retrieve_candidates, filled with the chunks
\* that the loops over the selected docsets and their candidate indices
\* meet: a doc_ref met again keeps its place and takes the greater scores
RECURSIVE CollectCandidates(_, _)
CollectCandidates(all_candidates, hits) ==
    IF hits = <<>> THEN all_candidates
    ELSE LET hit == Head(hits)
             at == {i \in 1..Len(all_candidates) : all_candidates[i].doc_ref = hit.doc_ref}
             merged(existing) ==
                 [doc_ref |-> hit.doc_ref,
                  bm25_score |-> IF existing.bm25_score >= hit.bm25_score
                                 THEN existing.bm25_score ELSE hit.bm25_score,
                  vector_score |-> IF existing.vector_score >= hit.vector_score
                                   THEN existing.vector_score ELSE hit.vector_score]
         IN  CollectCandidates(
                 IF at = {} THEN Append(all_candidates, hit)
                 ELSE [i \in 1..Len(all_candidates) |->
                          IF i \in at THEN merged(all_candidates[i])
                          ELSE all_candidates[i]],
                 Tail(hits))

\* _rerank_candidates: score = 0.45 * bm25_n + 0.55 * vec_n, as a fraction
\* over 100 * den(bm25_n) * den(vec_n); sorted by score, greatest first
_rerank_candidates(candidates) ==
    LET bm25_n == _minmax([i \in 1..Len(candidates) |-> candidates[i].bm25_score])
        vec_n == _minmax([i \in 1..Len(candidates) |-> candidates[i].vector_score])
        scored == [i \in 1..Len(candidates) |->
                     [doc_ref |-> candidates[i].doc_ref,
                      score |-> [num |-> 45 * bm25_n[i].num * vec_n[i].den
                                           + 55 * vec_n[i].num * bm25_n[i].den,
                                 den |-> 100 * bm25_n[i].den * vec_n[i].den]]]
    IN  IF candidates = <<>> THEN <<>>
        ELSE StableSortDesc(scored, [i \in 1..Len(scored) |-> scored[i].score.num])

\* the end of _search_uncached: the candidates of the retrieval, reranked
\* and cut to k = top_k, or results_top_k without top_k
SearchResults(hits, top_k, st) ==
    LET candidates == CollectCandidates(<<>>, hits)
        reranked == _rerank_candidates(candidates)
        k == IF top_k # None /\ top_k[1] # 0 THEN top_k[1] ELSE st.results_top_k
    IN  [candidates |-> candidates, results |-> Take(reranked, k)]

\* open that falls back on the first chunk of the index when the index does
\* not know the doc_ref
OpenLookupWithDefault(docset_id, indexes, doc_ref) ==
    IF docset_id \notin DOMAIN indexes
    THEN [outcome |-> "KeyError", section |-> None]
    ELSE LET index == indexes[docset_id]
             chunk == IF doc_ref \in DOMAIN index.doc_ref_to_chunk
                      THEN index.doc_ref_to_chunk[doc_ref]
                      ELSE index.chunks[1]
         IN  [outcome |-> "ok", section |-> Some(index.sections[chunk.section_ref])]

\* IndexManager.open on the values it has read: the docset id found in the
\* doc_ref_to_docset of one state and the indexes of a state read next.
\* "KeyError" is the not-found signal.
OpenLookup(docset_id, indexes, doc_ref) ==
    IF docset_id \notin DOMAIN indexes
    THEN [outcome |-> "KeyError", section |-> None]
    ELSE LET index == indexes[docset_id]
         IN  IF doc_ref \notin DOMAIN index.doc_ref_to_chunk
             THEN [outcome |-> "KeyError", section |-> None]
             ELSE [outcome |-> "ok",
                   section |-> Some(index.sections[
                                   index.doc_ref_to_chunk[doc_ref].section_ref])]

\* s.split(sep, 1)[0]
BeforeFirst(s, sep) ==
    IF \E i \in 1..Len(s) : s[i] = sep
    THEN SubSeq(s, 1, (CHOOSE i \in 1..Len(s) :
                          s[i] = sep /\ \A j \in 1..(i - 1) : s[j] # sep) - 1)
    ELSE s

\* s.lstrip(chars)
RECURSIVE LStrip(_, _)
LStrip(s, chars) ==
    IF s # <<>> /\ Head(s) \in chars THEN LStrip(Tail(s), chars) ELSE s

\* s.split(sep)
RECURSIVE SplitOn(_, _)
SplitOn(s, sep) ==
    IF \E i \in 1..Len(s) : s[i] = sep
    THEN LET first == BeforeFirst(s, sep)
         IN  <<first>> \o SplitOn(SubSeq(s, Len(first) + 2, Len(s)), sep)
    ELSE <<s>>

\* s.replace(old, new) for single characters
ReplaceChar(s, old, new) == [i \in 1..Len(s) |-> IF s[i] = old THEN new ELSE s[i]]

DotDot == <<".", ".">>

\* the loop of posixpath.normpath over the components of a path
RECURSIVE NormComps(_, _, _)
NormComps(new_comps, comps, initial_slashes) ==
    IF comps = <<>> THEN new_comps
    ELSE LET comp == Head(comps)
         IN  IF comp \in {<<>>, <<".">>}
             THEN NormComps(new_comps, Tail(comps), initial_slashes)
             ELSE IF \/ comp # DotDot
                     \/ (initial_slashes = 0 /\ new_comps = <<>>)
                     \/ (new_comps # <<>> /\ new_comps[Len(new_comps)] = DotDot)
             THEN NormComps(Append(new_comps, comp), Tail(comps), initial_slashes)
             ELSE IF new_comps # <<>>
             THEN NormComps(SubSeq(new_comps, 1, Len(new_comps) - 1), Tail(comps),
                            initial_slashes)
             ELSE NormComps(new_comps, Tail(comps), initial_slashes)

\* posixpath.normpath
normpath(path) ==
    IF path = <<>> THEN <<".">>
    ELSE LET initial_slashes ==
                 IF Head(path) # "/" THEN 0
                 ELSE IF Len(path) >= 2 /\ path[2] = "/"
                         /\ ~(Len(path) >= 3 /\ path[3] = "/")
                      THEN 2 ELSE 1
             comps == NormComps(<<>>, SplitOn(path, "/"), initial_slashes)
             out == [i \in 1..initial_slashes |-> "/"] \o JoinStrings(comps, "/")
         IN  IF out = <<>> THEN <<".">> ELSE out

\* the parts of PurePosixPath(path) for a relative path: the components
\* but the empty ones and "."
PurePosixParts(path) ==
    SelectSeq(SplitOn(path, "/"), LAMBDA comp : comp \notin {<<>>, <<".">>})

\* str(PurePosixPath(file_path).parent / clean) for relative paths
JoinUnderParent(file_path, clean) ==
    LET parts == PurePosixParts(file_path)
        base_dir == SubSeq(parts, 1, Len(parts) - 1)
        joined == JoinStrings(base_dir \o PurePosixParts(clean), "/")
    IN  IF joined = <<>> THEN <<".">> ELSE joined

\* a scheme prefix of a src is one token
SchemePrefixes == {"http://", "https://", "data:"}

\* the body of the loop of _resolve_assets: the path given to the asset of
\* this src (None: the asset is kept as it is, without path)
ResolveAssetPath(src, file_path) ==
    LET clean0 == Strip(BeforeFirst(BeforeFirst(src, "#"), "?"))
        clean == ReplaceChar(clean0, "\\", "/")
        rel0 == IF Head(clean) = "/"
                THEN LStrip(clean, {"/"})
                ELSE normpath(JoinUnderParent(file_path, clean))
        rel == LStrip(rel0, {".", "/"})
    IN  IF clean0 = <<>> \/ Head(clean0) \in SchemePrefixes
        THEN None
        ELSE IF \/ rel \in {<<>>, <<".">>}
                \/ (Len(rel) >= 3 /\ SubSeq(rel, 1, 3) = <<".", ".", "/">>)
                \/ rel = DotDot
        THEN None
        ELSE Some(rel)

\* _resolve_assets: every asset with the path of its src
_resolve_assets(assets, file_path) ==
    [i \in 1..Len(assets) |->
        [assets[i] EXCEPT !.path = ResolveAssetPath(assets[i].src, file_path)]]

\* A path of the filesystem is the sequence of its components from "/".
\* Path.resolve(): "." and empty components are dropped, ".." goes to the
\* parent (the parent of "/" is "/"), and a path that is a symbolic link is
\* replaced by the canonical path it points to.
RECURSIVE ResolvePath(_, _, _)
ResolvePath(done, rest, links) ==
    IF rest = <<>> THEN done
    ELSE LET comp == Head(rest)
             next == Append(done, comp)
         IN  IF comp \in {<<>>, <<".">>}
             THEN ResolvePath(done, Tail(rest), links)
             ELSE IF comp = DotDot
             THEN ResolvePath(SubSeq(done, 1, Len(done) - 1), Tail(rest), links)
             ELSE ResolvePath(IF next \in DOMAIN links THEN links[next] ELSE next,
                              Tail(rest), links)

\* root in target.parents
IsParentOf(root, target) ==
    Len(root) < Len(target) /\ SubSeq(target, 1, Len(root)) = root

\* _safe_resolve_under_root without the test that the target is the root or
\* lies below it
_resolve_under_root_unchecked(root, relative_path, links) ==
    IF \/ (relative_path # <<>> /\ Head(relative_path) \in {"/", "\\"})
       \/ \E i \in 1..Len(relative_path) : relative_path[i] = ":"
    THEN [ok |-> FALSE, target |-> None]
    ELSE [ok |-> TRUE,
          target |-> Some(ResolvePath(<<>>, SplitOn(root, "/")
                                              \o SplitOn(relative_path, "/"), links))]

\* _safe_resolve_under_root: [ok, target]; ok is FALSE where the code raises
\* ValueError.  root and relative_path are strings, links the symbolic
\* links of the filesystem.
_safe_resolve_under_root(root, relative_path, links) ==
    IF \/ (relative_path # <<>> /\ Head(relative_path) \in {"/", "\\"})
       \/ \E i \in 1..Len(relative_path) : relative_path[i] = ":"
    THEN [ok |-> FALSE, target |-> None]
    ELSE LET target == ResolvePath(<<>>, SplitOn(root, "/")
                                          \o SplitOn(relative_path, "/"), links)
             canonical == ResolvePath(<<>>, SplitOn(root, "/"), links)
         IN  IF canonical # target /\ ~IsParentOf(canonical, target)
             THEN [ok |-> FALSE, target |-> None]
             ELSE [ok |-> TRUE, target |-> Some(target)]

\* the regular files of the filesystem: the files of the documentation
\* trees under the docset roots "/dA" and "/dB", and "/f" and "/etc/passwd"
FsFiles(fs) ==
    UNION { { << <<"d", d>> >> \o [i \in 1..Len(f) |-> <<f[i]>>] : f \in TreeFiles(fs[d]) } :
            d \in DOMAIN fs }
    \cup { << <<"f">> >>, << <<"etc">>, <<"passwd">> >> }

\* no symbolic link; or "/dA/out" -> "/dB" and "/dA/in" -> "/dA/img"
NoLinks == <<>>
SomeLinks ==
    [p \in { << <<"d", "A">>, <<"out">> >>, << <<"d", "A">>, <<"in">> >> } |->
        IF p[2] = <<"out">> THEN << <<"d", "B">> >>
        ELSE << <<"d", "A">>, <<"img">> >>]

\* asset_path after ensure_ready, on the docsets of the state it reads:
\* [outcome, target]
asset_path(docsets, docset_id, relative_path, files, links) ==
    IF docset_id \notin DocsetIdsOf(docsets)
    THEN [outcome |-> "KeyError", target |-> None]
    ELSE LET resolved == _safe_resolve_under_root(
                             DocsetById(docsets, docset_id).root_path,
                             relative_path, links)
         IN  IF ~resolved.ok
             THEN [outcome |-> "ValueError", target |-> None]
             ELSE IF resolved.target[1] \notin files
             THEN [outcome |-> "FileNotFoundError", target |-> None]
             ELSE [outcome |-> "ok", target |-> resolved.target]

(***************************************************************************)
(* The state machine.                                                      *)
(***************************************************************************)
DocsetIds == {"A", "B"}

Queries == { <<"p", "d">> }

\* the docset_ids arguments of reindex: None, or a list of ids (as a set)
ReindexArgs == { None, Some({"B"}), Some({"C"}) }

\* doc_ref arguments of open
SecRefH == <<"A", "f", _stable_anchor("f", <<"H">>), <<"H">>>>
OpenArgs == { <<"A", SecRefH, 1>> }

\* (docset_id, relative_path) arguments of asset_path
AssetArgs == { <<"A", <<"img", "/", "a">>>> }

Ops == {"ensure_ready", "reindex", "search", "open", "asset_path", "docsets"}

ArgsOf(op) ==
    CASE op = "reindex" -> ReindexArgs
      [] op = "search" -> {Some(q) : q \in Queries}
      [] op = "open" -> {Some(r) : r \in OpenArgs}
      [] op = "asset_path" -> {Some(a) : a \in AssetArgs}
      [] OTHER -> {None}

\* no _load_snapshot has run in the call
NotSeen == [found |-> "not run"]

\* a thread that runs no call
Idle ==
    [pc |-> "idle", op |-> "none", arg |-> None,
     how |-> "none",        \* how ensure_ready found or made the state
     seen |-> NotSeen,      \* what _load_snapshot found
     revision |-> 0,        \* search: the revision read for the cache key
     selected |-> <<>>,     \* search: routing.selected_docsets
     routeRev |-> 0,        \* search: revision of the state that was routed on
     payload |-> None,      \* search: the value _search_uncached returns
     docset_id |-> None,    \* open: the docset id read from doc_ref_to_docset
     first |-> None,        \* open: the state read first
     built |-> {},          \* _reindex_impl: the docsets built afresh
     todo |-> {},           \* _reindex_impl: built docsets whose texts await embedding
     state |-> None]        \* the IndexState to publish

NoResult == [op |-> "none", outcome |-> "none"]

NoSnapshot ==
    [kind |-> "missing", schema_version |-> 0, signature |-> <<>>,
     state |-> None, saved |-> None]

_SNAPSHOT_SCHEMA_VERSION == 1

Init ==
    /\ settings \in InitSettings
    /\ registry = <<"A+", "B+">>
    /\ docs = [d \in DocsetIds |-> IF d = "A" THEN 3 ELSE 2]
    /\ snapshot = NoSnapshot
    /\ _state = None
    /\ _revision = 0
    /\ _reindex_lock = "free"
    /\ _state_lock = "free"
    /\ _embed_lock = "free"
    /\ _search_cached = <<>>
    /\ _embed_query_cached = {}
    /\ thr = [t \in Threads |-> Idle]
    /\ result = [t \in Threads |-> NoResult]
    /\ calls = 0
    /\ edits = 0
    /\ restarts = 0
    /\ fn_call = None
    /\ fn_result = None

env == <<settings, registry, docs, edits, restarts, fn_call, fn_result>>
mgr == <<_state, _revision>>
caches == <<_search_cached, _embed_query_cached>>
locks == <<_reindex_lock, _state_lock, _embed_lock>>

\* where a call goes once ensure_ready has returned
Body(op) ==
    CASE op = "search" -> "s_rev"
      [] op = "open" -> "o_docset"
      [] op = "asset_path" -> "a_path"
      [] op = "docsets" -> "d_list"
      [] OTHER -> "return"

\* the call of thread t ends with result r
Finish(t, r) ==
    /\ thr' = [thr EXCEPT ![t] = Idle]
    /\ result' = [result EXCEPT ![t] =
                    r @@ [op |-> thr[t].op, arg |-> thr[t].arg, outcome |-> "ok",
                          how |-> thr[t].how, seen |-> thr[t].seen,
                          built |-> thr[t].built]]

Raise(t, exc, stage) == Finish(t, [outcome |-> exc, stage |-> stage])

\* A thread starts a call.  Every operation but reindex begins with
\* ensure_ready, whose first test of self._state is made here.
StartCall(t, ops) ==
    /\ thr[t].pc = "idle"
    /\ calls < MaxCalls
    /\ calls' = calls + 1
    /\ \E op \in ops : \E arg \in ArgsOf(op) :
          thr' = [thr EXCEPT ![t] =
                    [Idle EXCEPT !.op = op, !.arg = arg,
                                 !.how = IF op # "reindex" /\ _state # None
                                         THEN "ready" ELSE "none",
                                 !.pc = IF op = "reindex" THEN "ri_lock"
                                        ELSE IF _state # None THEN Body(op)
                                        ELSE "er_lock"]]
    /\ result' = [result EXCEPT ![t] = NoResult]
    /\ UNCHANGED <<env, snapshot, mgr, locks, caches>>

Call(t) == StartCall(t, Ops)

\* the calls of the runs with restarts
LifecycleCall(t) == StartCall(t, {"ensure_ready", "reindex"})

\* IndexSnapshot(schema_version, signature, state) as _save_snapshot writes
\* it; "saved" records what the signature was computed from
NewSnapshot(st, bytes, state) ==
    [kind |-> "snapshot",
     schema_version |-> _SNAPSHOT_SCHEMA_VERSION,
     signature |-> _snapshot_signature(st, bytes),
     state |-> state,
     saved |-> Some([docsets_file |-> st.docsets_file, bytes |-> bytes,
                     embedding_model |-> st.embedding_model,
                     chunk_words |-> st.chunk_words,
                     chunk_overlap_words |-> st.chunk_overlap_words])]

\* _load_snapshot without the comparison of the signatures
LoadSnapshotCheckUnsigned ==
    IF settings.index_snapshot_path = None THEN "none"
    ELSE IF snapshot.kind = "missing" THEN "missing"
    ELSE IF snapshot.kind = "corrupt" THEN "unreadable"
    ELSE IF snapshot.kind # "snapshot" THEN "invalid format"
    ELSE IF snapshot.schema_version # _SNAPSHOT_SCHEMA_VERSION THEN "schema mismatch"
    ELSE "valid"

\* _load_snapshot up to its publish: "none" (no snapshot path), "missing",
\* "unreadable", "invalid format", "schema mismatch", "stale", or "valid"
LoadSnapshotCheck ==
    IF settings.index_snapshot_path = None THEN "none"
    ELSE IF snapshot.kind = "missing" THEN "missing"
    ELSE IF snapshot.kind = "corrupt" THEN "unreadable"
    ELSE IF snapshot.kind # "snapshot" THEN "invalid format"
    ELSE IF snapshot.schema_version # _SNAPSHOT_SCHEMA_VERSION THEN "schema mismatch"
    ELSE IF snapshot.signature # _snapshot_signature(settings, registry) THEN "stale"
    ELSE "valid"

\* the outcomes of _load_snapshot that are a hard error whatever auto_index is
LoadRaises(found) == found \in {"invalid format", "schema mismatch"}

\* the outcomes on which _load_snapshot returns False when auto_index is on
\* and raises when it is off
LoadSoftFails(found) == found \in {"missing", "unreadable", "stale"}

\* what _load_snapshot had before it when it decided: the file it read and
\* the signature of the registry and settings of that moment
Seen(found) ==
    [found |-> found,
     kind |-> snapshot.kind,
     schema_version |-> snapshot.schema_version,
     signature |-> snapshot.signature,
     current |-> _snapshot_signature(settings, registry),
     saved |-> snapshot.saved,
     loader |-> NewSnapshot(settings, registry, None).saved]

\* a reindex lock that never makes a thread wait
AcquirableAlways(lock) == TRUE

\* with self._reindex_lock: the lock is taken when no thread holds it
Acquirable(lock) == lock = "free"

\* ensure_ready, under the lock: if self._state is not None: return
SecondCheck(state) == state # None

\* ensure_ready running the build through reindex(), which takes the reindex
\* lock
BuildOfEnsureReadyRelocking == "ri_lock"

\* ensure_ready runs the build with self._reindex_impl(docset_ids=None), inside
\* the reindex lock that it holds
BuildOfEnsureReady == "ri_load"

\* ensure_ready, from the acquisition of the reindex lock: the second test
\* of self._state, then _load_snapshot up to its publish, then the test of
\* auto_index.
EnsureReadyLocked(t) ==
    /\ thr[t].pc = "er_lock"
    /\ Acquirable(_reindex_lock)
    /\ LET found == LoadSnapshotCheck IN
       IF SecondCheck(_state)
       THEN /\ thr' = [thr EXCEPT ![t].pc = Body(thr[t].op), ![t].how = "waited"]
            /\ UNCHANGED <<_reindex_lock, result>>
       ELSE IF found = "valid"
       THEN /\ thr' = [thr EXCEPT ![t].pc = "ld_state", ![t].seen = Seen(found),
                                  ![t].state = snapshot.state]
            /\ _reindex_lock' = t
            /\ UNCHANGED result
       ELSE IF LoadRaises(found)
               \/ (LoadSoftFails(found) /\ ~settings.auto_index)
               \/ (found = "none" /\ ~settings.auto_index)
       THEN /\ Finish(t, [outcome |-> "RuntimeError", stage |-> "load",
                          seen |-> Seen(found)])
            /\ UNCHANGED _reindex_lock
       ELSE /\ thr' = [thr EXCEPT ![t].pc = BuildOfEnsureReady,
                                  ![t].seen = Seen(found)]
            /\ _reindex_lock' = t
            /\ UNCHANGED result
    /\ UNCHANGED <<env, snapshot, mgr, _state_lock, _embed_lock, caches, calls>>

\* _load_snapshot, with self._state_lock: self._state = snapshot.state and
\* self._revision = snapshot.state.revision.  No other thread reads
\* self._revision outside the reindex lock, so the two assignments are one
\* step.
LoadPublishState(t) ==
    /\ thr[t].pc = "ld_state"
    /\ _state_lock = "free"
    /\ _state_lock' = t
    /\ _state' = thr[t].state
    /\ _revision' = thr[t].state[1].revision
    /\ thr' = [thr EXCEPT ![t].pc = "ld_clear"]
    /\ UNCHANGED <<env, snapshot, _reindex_lock, _embed_lock, caches, result, calls>>

\* both cache_clear() calls, the release of the state lock, the return of
\* _load_snapshot and of ensure_ready (which releases the reindex lock)
LoadPublishClear(t) ==
    /\ thr[t].pc = "ld_clear"
    /\ _search_cached' = <<>>
    /\ _embed_query_cached' = {}
    /\ _state_lock' = "free"
    /\ _reindex_lock' = "free"
    /\ thr' = [thr EXCEPT ![t].pc = Body(thr[t].op), ![t].how = "loaded",
                           ![t].state = None]
    /\ UNCHANGED <<env, snapshot, mgr, _embed_lock, result, calls>>

\* ensure_ready() called for itself returns
EnsureReadyReturn(t) ==
    /\ thr[t].pc = "return"
    /\ Finish(t, <<>>)
    /\ UNCHANGED <<env, snapshot, mgr, locks, caches, calls>>

\* the docset_ids of the running _reindex_impl: None from ensure_ready
IdsOf(t) == IF thr[t].op = "reindex" THEN thr[t].arg ELSE None

\* doc_ref_to_docset as the loop over the enabled docsets fills it: the
\* docset that comes last in the loop wins a doc_ref
ChunkRefs(index) == {index.chunks[i].doc_ref : i \in 1..Len(index.chunks)}

DocRefToDocset(enabled, indexes) ==
    [ref \in UNION {ChunkRefs(indexes[enabled[i].docset_id]) : i \in 1..Len(enabled)} |->
        enabled[CHOOSE i \in 1..Len(enabled) :
                    /\ ref \in ChunkRefs(indexes[enabled[i].docset_id])
                    /\ \A j \in (i + 1)..Len(enabled) :
                          ref \notin ChunkRefs(indexes[enabled[j].docset_id])].docset_id]

\* the previous index carried over whenever there is one, listed or not
CarriesOverListed(docset, ids, previous) ==
    /\ ids # None
    /\ previous # None
    /\ docset.docset_id \in DOMAIN previous[1].indexes

\* the test of the loop of _reindex_impl: is the previous index carried over?
CarriesOver(docset, ids, previous) ==
    /\ ~(ids = None \/ docset.docset_id \in ids[1])
    /\ previous # None
    /\ docset.docset_id \in DOMAIN previous[1].indexes

\* the new IndexState under the revision the counter holds, not the next one
NewIndexStateSameRevision(rev, enabled, indexes) ==
    [revision |-> rev,
     docsets |-> enabled,
     indexes |-> indexes,
     doc_ref_to_docset |-> DocRefToDocset(enabled, indexes)]

\* IndexState(revision=self._revision + 1, ...)
NewIndexState(rev, enabled, indexes) ==
    [revision |-> rev + 1,
     docsets |-> enabled,
     indexes |-> indexes,
     doc_ref_to_docset |-> DocRefToDocset(enabled, indexes)]

\* the loop of _reindex_impl over the enabled docsets, from position i on:
\* [ok, indexes, built]; "built" counts the docsets built afresh.  The build
\* of one docset failing ends the loop.
RECURSIVE BuildLoop(_, _, _, _, _, _, _)
BuildLoop(enabled, i, ids, previous, fs, st, acc) ==
    IF i > Len(enabled) THEN [ok |-> TRUE, indexes |-> acc.indexes, built |-> acc.built]
    ELSE LET docset == enabled[i]
             id == docset.docset_id
             fresh == _build_docset_index(docset, fs[id], st)
         IN  IF CarriesOver(docset, ids, previous)
             THEN BuildLoop(enabled, i + 1, ids, previous, fs, st,
                      [indexes |-> acc.indexes @@
                                     (id :> [previous[1].indexes[id] EXCEPT !.docset = docset]),
                       built |-> acc.built])
             ELSE IF ~fresh.ok
             THEN [ok |-> FALSE, indexes |-> acc.indexes, built |-> acc.built]
             ELSE BuildLoop(enabled, i + 1, ids, previous, fs, st,
                      [indexes |-> acc.indexes @@ (id :> fresh.index[1]),
                       built |-> acc.built \cup {id}])

\* _reindex_impl without the test of the requested ids against the enabled
\* docsets
_reindex_impl_unvalidated(ids, bytes, fs, st, previous, rev) ==
    LET loaded == _load_docsets(bytes, fs)
        enabled == SelectSeq(loaded.docsets, LAMBDA d : d.enabled)
        loop == BuildLoop(enabled, 1, ids, previous, fs, st,
                          [indexes |-> <<>>, built |-> {}])
        failed(stage, built) ==
            [outcome |-> "ValueError", stage |-> stage, state |-> None, built |-> built]
    IN  IF ~loaded.ok THEN failed("registry", {})
        ELSE IF enabled = <<>> THEN failed("no enabled docsets", {})
        ELSE IF ~loop.ok THEN failed("build", loop.built)
        ELSE [outcome |-> "ok", stage |-> "publish",
              state |-> Some(NewIndexState(rev, enabled, loop.indexes)),
              built |-> loop.built]

\* _reindex_impl up to the publish: [outcome, stage, state, built]
_reindex_impl(ids, bytes, fs, st, previous, rev) ==
    LET loaded == _load_docsets(bytes, fs)
        enabled == SelectSeq(loaded.docsets, LAMBDA d : d.enabled)
        loop == BuildLoop(enabled, 1, ids, previous, fs, st,
                          [indexes |-> <<>>, built |-> {}])
        failed(stage, built) ==
            [outcome |-> "ValueError", stage |-> stage, state |-> None, built |-> built]
    IN  IF ~loaded.ok THEN failed("registry", {})
        ELSE IF enabled = <<>> THEN failed("no enabled docsets", {})
        ELSE IF ids # None /\ \E d \in ids[1] : d \notin DocsetIdsOf(enabled)
        THEN failed("unknown or disabled docsets", {})
        ELSE IF ~loop.ok THEN failed("build", loop.built)
        ELSE [outcome |-> "ok", stage |-> "publish",
              state |-> Some(NewIndexState(rev, enabled, loop.indexes)),
              built |-> loop.built]

\* reindex and ensure_ready: the reindex lock is taken (by reindex; ensure_ready
\* holds it already) and _reindex_impl runs up to its publish: registry load,
\* validation of the ids, the builds, the new IndexState.  An exception
\* releases the lock and leaves the call.
ReindexBuild(t) ==
    /\ \/ thr[t].pc = "ri_lock" /\ Acquirable(_reindex_lock)
       \/ thr[t].pc = "ri_load"
    /\ LET r == _reindex_impl(IdsOf(t), registry, docs, settings, _state, _revision)
       IN  IF r.outcome # "ok"
           THEN /\ Finish(t, [outcome |-> r.outcome, stage |-> r.stage, built |-> r.built])
                /\ _reindex_lock' = "free"
           ELSE /\ thr' = [thr EXCEPT ![t].pc = "ri_pub_state", ![t].state = r.state,
                                      ![t].built = r.built]
                /\ _reindex_lock' = t
                /\ UNCHANGED result
    /\ UNCHANGED <<env, snapshot, mgr, _state_lock, _embed_lock, caches, calls>>

\* the publish, with self._state_lock: self._revision += 1 and
\* self._state = state (one step: see LoadPublishState)
PublishState(t) ==
    /\ thr[t].pc = "ri_pub_state"
    /\ _state_lock = "free"
    /\ _state_lock' = t
    /\ _revision' = _revision + 1
    /\ _state' = thr[t].state
    /\ thr' = [thr EXCEPT ![t].pc = "ri_pub_clear"]
    /\ UNCHANGED <<env, snapshot, _reindex_lock, _embed_lock, caches, result, calls>>

\* both cache_clear() calls and the release of the state lock
PublishClear(t) ==
    /\ thr[t].pc = "ri_pub_clear"
    /\ _search_cached' = <<>>
    /\ _embed_query_cached' = {}
    /\ _state_lock' = "free"
    /\ thr' = [thr EXCEPT ![t].pc = "ri_save"]
    /\ UNCHANGED <<env, snapshot, mgr, _reindex_lock, _embed_lock, result, calls>>

\* _save_snapshot whose failure takes the publish back: no state, and the
\* revision counter as it was
SaveSnapshotOrUnpublish(t) ==
    /\ thr[t].pc = "ri_save"
    /\ _reindex_lock' = "free"
    /\ \/ /\ snapshot' = IF settings.index_snapshot_path = None THEN snapshot
                         ELSE NewSnapshot(settings, registry, thr[t].state)
          /\ IF thr[t].op = "reindex"
             THEN Finish(t, [stage |-> "done", built |-> thr[t].built])
             ELSE /\ thr' = [thr EXCEPT ![t] =
                        [Idle EXCEPT !.op = thr[t].op, !.arg = thr[t].arg,
                                     !.seen = thr[t].seen, !.how = "built",
                                     !.built = thr[t].built,
                                     !.pc = Body(thr[t].op)]]
                  /\ UNCHANGED result
          /\ UNCHANGED mgr
       \/ /\ settings.index_snapshot_path # None
          /\ UNCHANGED snapshot
          /\ Finish(t, [outcome |-> "OSError", stage |-> "save",
                        revision |-> thr[t].state[1].revision, calls |-> calls])
          /\ _state' = None
          /\ _revision' = _revision - 1
    /\ UNCHANGED <<env, _state_lock, _embed_lock, caches, calls>>

\* _save_snapshot and the end of _reindex_impl: the file is replaced, or the
\* write fails and the exception leaves reindex; the reindex lock is released.
\* The result of a failed write records the revision that was published and
\* the number of calls made so far.
SaveSnapshot(t) ==
    /\ thr[t].pc = "ri_save"
    /\ _reindex_lock' = "free"
    /\ \/ /\ snapshot' = IF settings.index_snapshot_path = None THEN snapshot
                         ELSE NewSnapshot(settings, registry, thr[t].state)
          /\ IF thr[t].op = "reindex"
             THEN Finish(t, [stage |-> "done", built |-> thr[t].built])
             ELSE /\ thr' = [thr EXCEPT ![t] =
                        [Idle EXCEPT !.op = thr[t].op, !.arg = thr[t].arg,
                                     !.seen = thr[t].seen, !.how = "built",
                                     !.built = thr[t].built,
                                     !.pc = Body(thr[t].op)]]
                  /\ UNCHANGED result
          /\ UNCHANGED mgr
       \/ /\ settings.index_snapshot_path # None
          /\ UNCHANGED snapshot
          /\ Finish(t, [outcome |-> "OSError", stage |-> "save",
                        revision |-> thr[t].state[1].revision, calls |-> calls])
          /\ UNCHANGED mgr
    /\ UNCHANGED <<env, _state_lock, _embed_lock, caches, calls>>

\* search: revision = self._state.revision, and the cache key built on it
\* (source_hint, context and top_k are left out of the calls of the model)
SearchRevision(t) ==
    /\ thr[t].pc = "s_rev"
    /\ thr' = [thr EXCEPT ![t].pc = "s_lookup", ![t].revision = _state[1].revision]
    /\ UNCHANGED <<env, snapshot, mgr, locks, caches, result, calls>>

CacheKey(t) == <<thr[t].revision, thr[t].arg[1]>>

\* self._search_cached(key): the lookup of the lru_cache; a hit returns the
\* stored value.  "live" records the revision published at that moment.
SearchLookup(t) ==
    /\ thr[t].pc = "s_lookup"
    /\ IF CacheKey(t) \in DOMAIN _search_cached
       THEN Finish(t, [value |-> _search_cached[CacheKey(t)], hit |-> TRUE,
                       key |-> thr[t].revision, live |-> _state[1].revision])
       ELSE /\ thr' = [thr EXCEPT ![t].pc = "s_assert"]
            /\ UNCHANGED result
    /\ UNCHANGED <<env, snapshot, mgr, locks, caches, calls>>

\* _search_uncached: assert self._state is not None and
\* revision == self._state.revision
SearchAssert(t) ==
    /\ thr[t].pc = "s_assert"
    /\ IF thr[t].revision # _state[1].revision
       THEN Raise(t, "AssertionError", "revision")
       ELSE /\ thr' = [thr EXCEPT ![t].pc = "s_route"]
            /\ UNCHANGED result
    /\ UNCHANGED <<env, snapshot, mgr, locks, caches, calls>>

\* _route_docsets(self._state.docsets, ...), then the query is embedded
\* through the cache of query embeddings
SearchRoute(t) ==
    /\ thr[t].pc = "s_route"
    /\ LET selected == _route_docsets(_state[1].docsets, thr[t].arg[1], None, {},
                                      settings.router_max_docsets)
       IN  IF selected = <<>>
           THEN /\ Raise(t, "RuntimeError", "no docsets selected")
                /\ UNCHANGED _embed_query_cached
           ELSE /\ thr' = [thr EXCEPT ![t].pc = "s_retrieve",
                                      ![t].selected = selected,
                                      ![t].routeRev = _state[1].revision]
                /\ _embed_query_cached' = _embed_query_cached \cup {thr[t].arg[1]}
                /\ UNCHANGED result
    /\ UNCHANGED <<env, snapshot, mgr, locks, _search_cached, calls>>

\* _retrieve_candidates(state=self._state, ...), _rerank_candidates and the
\* cut to results_top_k.  The scores of BM25 and of the embedder are outside
\* the model: the candidates are taken to score alike, and the stable sort of
\* _rerank_candidates then keeps their order.
SearchRetrieve(t) ==
    /\ thr[t].pc = "s_retrieve"
    /\ LET got == _retrieve_candidates(thr[t].selected, _state[1], settings)
       IN  IF ~got.ok
           THEN Raise(t, "KeyError", "retrieve")
           ELSE /\ thr' = [thr EXCEPT ![t].pc = "s_store",
                              ![t].payload =
                                 Some([routing |-> thr[t].selected,
                                       results |-> Take(got.doc_refs, settings.results_top_k),
                                       routedOn |-> thr[t].routeRev,
                                       retrievedOn |-> _state[1].revision])]
                /\ UNCHANGED result
    /\ UNCHANGED <<env, snapshot, mgr, locks, caches, calls>>

\* the lru_cache stores the value under the key (an entry another thread
\* stored meanwhile is kept) and search returns
SearchStore(t) ==
    /\ thr[t].pc = "s_store"
    /\ _search_cached' = IF CacheKey(t) \in DOMAIN _search_cached
                         THEN _search_cached
                         ELSE _search_cached @@ (CacheKey(t) :> thr[t].payload[1])
    /\ Finish(t, [value |-> thr[t].payload[1], hit |-> FALSE,
                  key |-> thr[t].revision, live |-> _state[1].revision])
    /\ UNCHANGED <<env, snapshot, mgr, locks, _embed_query_cached, calls>>

\* what open gives on one IndexState: the section that holds the chunk with
\* that doc_ref, or the not-found signal
OpenOn(state, doc_ref) ==
    LET holders == {d \in DOMAIN state.indexes : doc_ref \in ChunkRefs(state.indexes[d])}
    IN  IF holders = {}
        THEN [outcome |-> "KeyError", section |-> None]
        ELSE LET index == state.indexes[CHOOSE d \in holders : TRUE]
                 chunk == index.chunks[CHOOSE i \in 1..Len(index.chunks) :
                                          index.chunks[i].doc_ref = doc_ref]
             IN  [outcome |-> "ok", section |-> Some(index.sections[chunk.section_ref])]

\* open: docset_id = self._state.doc_ref_to_docset.get(doc_ref)
OpenDocset(t) ==
    /\ thr[t].pc = "o_docset"
    /\ LET doc_ref == thr[t].arg[1]
           map == _state[1].doc_ref_to_docset
       IN  IF doc_ref \notin DOMAIN map
           THEN Finish(t, [outcome |-> "KeyError", section |-> None,
                           onFirst |-> OpenOn(_state[1], doc_ref),
                           onSecond |-> OpenOn(_state[1], doc_ref)])
           ELSE /\ thr' = [thr EXCEPT ![t].pc = "o_index",
                                      ![t].docset_id = Some(map[doc_ref]),
                                      ![t].first = _state]
                /\ UNCHANGED result
    /\ UNCHANGED <<env, snapshot, mgr, locks, caches, calls>>

\* index = self._state.indexes[docset_id], then the chunk and its section
OpenIndex(t) ==
    /\ thr[t].pc = "o_index"
    /\ LET doc_ref == thr[t].arg[1]
       IN  Finish(t, OpenLookup(thr[t].docset_id[1], _state[1].indexes, doc_ref)
                       @@ [onFirst |-> OpenOn(thr[t].first[1], doc_ref),
                           onSecond |-> OpenOn(_state[1], doc_ref)])
    /\ UNCHANGED <<env, snapshot, mgr, locks, caches, calls>>

\* asset_path: the docset of the state, the resolved target, is_file()
AssetPath(t) ==
    /\ thr[t].pc = "a_path"
    /\ LET r == asset_path(_state[1].docsets, thr[t].arg[1][1], thr[t].arg[1][2],
                           FsFiles(docs), NoLinks)
       IN  IF r.outcome = "KeyError" THEN Raise(t, "KeyError", "docset")
           ELSE IF r.outcome = "ValueError" THEN Raise(t, "ValueError", "path")
           ELSE IF r.outcome = "FileNotFoundError"
           THEN Raise(t, "FileNotFoundError", "file")
           ELSE Finish(t, [target |-> r.target[1]])
    /\ UNCHANGED <<env, snapshot, mgr, locks, caches, calls>>

\* docsets: list(self._state.docsets.values())
Docsets(t) ==
    /\ thr[t].pc = "d_list"
    /\ Finish(t, [docsets |-> _state[1].docsets])
    /\ UNCHANGED <<env, snapshot, mgr, locks, caches, calls>>

(***************************************************************************)
(* The environment: the registry file and the documentation are edited,    *)
(* the snapshot file is damaged or removed, the process is restarted.      *)
(***************************************************************************)
EditRegistry ==
    /\ edits < MaxEdits
    /\ edits' = edits + 1
    /\ registry' \in RegistryFiles \ {registry}
    /\ UNCHANGED <<settings, docs, restarts, snapshot, mgr, locks, caches, thr,
                   result, calls, fn_call, fn_result>>

LifecycleEditRegistry ==
    /\ edits < MaxEdits
    /\ edits' = edits + 1
    /\ registry' \in LifecycleRegistryFiles \ {registry}
    /\ UNCHANGED <<settings, docs, restarts, snapshot, mgr, locks, caches, thr,
                   result, calls, fn_call, fn_result>>

EditDocs ==
    /\ edits < MaxEdits
    /\ edits' = edits + 1
    /\ \E d \in DocsetIds : \E k \in DocTreeIds(d) \ {docs[d]} :
          docs' = [docs EXCEPT ![d] = k]
    /\ UNCHANGED <<settings, registry, restarts, snapshot, mgr, locks, caches,
                   thr, result, calls, fn_call, fn_result>>

\* The snapshot file is read by _load_snapshot alone, which runs only while
\* no state is published: damage done at another moment shows, if at all, as
\* damage done then.
DamageSnapshot ==
    /\ _state = None
    /\ \A t \in Threads : thr[t].pc # "ld_state"
    /\ edits < MaxEdits
    /\ edits' = edits + 1
    /\ snapshot' \in ({ [NoSnapshot EXCEPT !.kind = "corrupt"],
                        [NoSnapshot EXCEPT !.kind = "foreign"],
                        [snapshot EXCEPT !.schema_version = 2] } \ {snapshot})
    /\ snapshot'.kind # "missing"
    /\ UNCHANGED <<settings, registry, docs, restarts, mgr, locks, caches, thr,
                   result, calls, fn_call, fn_result>>

\* The process ends and a fresh IndexManager is constructed, with the same
\* or other settings; the files stay.  Under another registry path the
\* registry file is another file.
Restart ==
    /\ restarts < MaxRestarts
    /\ restarts' = restarts + 1
    /\ settings' \in SettingsChoices
    /\ IF settings'.docsets_file = settings.docsets_file
       THEN registry' = registry
       ELSE registry' \in LifecycleRegistryFiles
    /\ _state' = None
    /\ _revision' = 0
    /\ _reindex_lock' = "free"
    /\ _state_lock' = "free"
    /\ _embed_lock' = "free"
    /\ _search_cached' = <<>>
    /\ _embed_query_cached' = {}
    /\ thr' = [t \in Threads |-> Idle]
    /\ result' = [t \in Threads |-> NoResult]
    /\ UNCHANGED <<docs, snapshot, edits, calls, fn_call, fn_result>>

\* One process, started without a snapshot file: the threads call every
\* operation while the registry and the documentation are edited.
Step(t) ==
    \/ Call(t)
    \/ EnsureReadyLocked(t)
    \/ EnsureReadyReturn(t)
    \/ ReindexBuild(t)
    \/ PublishState(t)
    \/ PublishClear(t)
    \/ SaveSnapshot(t)
    \/ SearchRevision(t)
    \/ SearchLookup(t)
    \/ SearchAssert(t)
    \/ SearchRoute(t)
    \/ SearchRetrieve(t)
    \/ SearchStore(t)
    \/ OpenDocset(t)
    \/ OpenIndex(t)
    \/ AssetPath(t)
    \/ Docsets(t)

Next ==
    \/ \E t \in Threads : Step(t)
    \/ EditRegistry
    \/ EditDocs

Spec == Init /\ [][Next]_vars

\* The life of the snapshot file: the threads call ensure_ready and reindex,
\* the registry is edited, the snapshot file is damaged, and the process is
\* restarted with the same or other settings, which makes _load_snapshot
\* meet the snapshots that earlier processes saved.
LifecycleStep(t) ==
    \/ LifecycleCall(t)
    \/ EnsureReadyLocked(t)
    \/ LoadPublishState(t)
    \/ LoadPublishClear(t)
    \/ EnsureReadyReturn(t)
    \/ ReindexBuild(t)
    \/ PublishState(t)
    \/ PublishClear(t)
    \/ SaveSnapshot(t)

LifecycleNext ==
    \/ \E t \in Threads : LifecycleStep(t)
    \/ LifecycleEditRegistry
    \/ DamageSnapshot
    \/ Restart

LifecycleSpec == Init /\ [][LifecycleNext]_vars

(***************************************************************************)
(* The locks.  The build and the search are taken apart at every           *)
(* acquisition and release of self._embed_lock, which _embed_texts holds   *)
(* around the call of the embedder.                                        *)
(***************************************************************************)
\* calls started in the runs that follow the locks
MaxLockCalls == 2

\* the snapshot file that an earlier process saved for this registry
SavedSnapshot ==
    NewSnapshot(BaseSettings, <<"A+", "B+">>,
                _reindex_impl(None, <<"A+", "B+">>,
                              [d \in DocsetIds |-> IF d = "A" THEN 3 ELSE 2],
                              BaseSettings, None, 0).state)

\* a fresh manager, with or without the snapshot file of an earlier process
LockInit ==
    /\ settings \in InitSettings
    /\ registry = <<"A+", "B+">>
    /\ docs \in { [d \in DocsetIds |-> IF d = "A" THEN 3 ELSE 2],
                  [d \in DocsetIds |-> IF d = "A" THEN 3 ELSE 1] }
    /\ snapshot \in { NoSnapshot, SavedSnapshot }
    /\ _state = None
    /\ _revision = 0
    /\ _reindex_lock = "free"
    /\ _state_lock = "free"
    /\ _embed_lock = "free"
    /\ _search_cached = <<>>
    /\ _embed_query_cached = {}
    /\ thr = [t \in Threads |-> Idle]
    /\ result = [t \in Threads |-> NoResult]
    /\ calls = 0
    /\ edits = 0
    /\ restarts = 0
    /\ fn_call = None
    /\ fn_result = None

\* reindex and ensure_ready: the reindex lock is taken (by reindex; ensure_ready
\* holds it already) and _reindex_impl runs up to the first call of the
\* embedder: registry load and validation of the ids, which raise and release
\* the lock, or the parsing of the first docset to build.  "todo" holds the
\* docsets whose build reaches _embed_texts; a docset without chunks fails
\* the build once the docsets before it are embedded.
ReindexLoad(t) ==
    /\ \/ thr[t].pc = "ri_lock" /\ Acquirable(_reindex_lock)
       \/ thr[t].pc = "ri_load"
    /\ LET r == _reindex_impl(IdsOf(t), registry, docs, settings, _state, _revision)
       IN  IF r.outcome # "ok" /\ (r.stage # "build" \/ r.built = {})
           THEN /\ Finish(t, [outcome |-> r.outcome, stage |-> r.stage, built |-> r.built])
                /\ _reindex_lock' = "free"
           ELSE /\ thr' = [thr EXCEPT ![t].pc = IF r.built = {} THEN "ri_pub_state"
                                                ELSE "ri_embed",
                                      ![t].state = r.state,
                                      ![t].built = r.built,
                                      ![t].todo = r.built]
                /\ _reindex_lock' = t
                /\ UNCHANGED result
    /\ UNCHANGED <<env, snapshot, mgr, _state_lock, _embed_lock, caches, calls>>

\* _embed_texts: with self._embed_lock
EmbedAcquire(t) ==
    /\ thr[t].pc \in {"ri_embed", "s_embed"}
    /\ _embed_lock = "free"
    /\ _embed_lock' = t
    /\ thr' = [thr EXCEPT ![t].pc = IF thr[t].pc = "ri_embed" THEN "ri_embedding"
                                    ELSE "s_embedding"]
    /\ UNCHANGED <<env, snapshot, mgr, _reindex_lock, _state_lock, caches, result,
                   calls>>

\* the embedder returns or raises inside the build of one docset; the
\* with-block releases the embed lock either way.  An exception, and the
\* build of a docset without chunks that comes next, leave _reindex_impl and
\* release the reindex lock.
BuildEmbedded(t) ==
    /\ thr[t].pc = "ri_embedding"
    /\ _embed_lock' = "free"
    /\ \/ /\ Raise(t, "RuntimeError", "embed")
          /\ _reindex_lock' = "free"
       \/ \E d \in thr[t].todo :
             IF thr[t].todo # {d}
             THEN /\ thr' = [thr EXCEPT ![t].pc = "ri_embed", ![t].todo = @ \ {d}]
                  /\ UNCHANGED <<_reindex_lock, result>>
             ELSE IF thr[t].state # None
             THEN /\ thr' = [thr EXCEPT ![t].pc = "ri_pub_state", ![t].todo = {}]
                  /\ UNCHANGED <<_reindex_lock, result>>
             ELSE /\ Finish(t, [outcome |-> "ValueError", stage |-> "build",
                                built |-> thr[t].built])
                  /\ _reindex_lock' = "free"
    /\ UNCHANGED <<env, snapshot, mgr, _state_lock, caches, calls>>

\* _route_docsets, then self._embed_query_cached(query): a hit of the
\* lru_cache, or _embed_query_uncached, which goes through _embed_texts
SearchRouteOnly(t) ==
    /\ thr[t].pc = "s_route"
    /\ LET selected == _route_docsets(_state[1].docsets, thr[t].arg[1], None, {},
                                      settings.router_max_docsets)
       IN  IF selected = <<>>
           THEN Raise(t, "RuntimeError", "no docsets selected")
           ELSE /\ thr' = [thr EXCEPT ![t].pc = IF thr[t].arg[1] \in _embed_query_cached
                                                THEN "s_retrieve" ELSE "s_embed",
                                      ![t].selected = selected,
                                      ![t].routeRev = _state[1].revision]
                /\ UNCHANGED result
    /\ UNCHANGED <<env, snapshot, mgr, locks, caches, calls>>

\* the embedder returns the query vector, which the lru_cache stores, or
\* raises; the with-block releases the embed lock either way
QueryEmbedded(t) ==
    /\ thr[t].pc = "s_embedding"
    /\ _embed_lock' = "free"
    /\ \/ /\ Raise(t, "RuntimeError", "embed")
          /\ UNCHANGED _embed_query_cached
       \/ /\ thr' = [thr EXCEPT ![t].pc = "s_retrieve"]
          /\ _embed_query_cached' = _embed_query_cached \cup {thr[t].arg[1]}
          /\ UNCHANGED result
    /\ UNCHANGED <<env, snapshot, mgr, _reindex_lock, _state_lock, _search_cached,
                   calls>>

LockCall(t) == calls < MaxLockCalls /\ StartCall(t, Ops)

LockStep(t) ==
    \/ LockCall(t)
    \/ EnsureReadyLocked(t)
    \/ LoadPublishState(t)
    \/ LoadPublishClear(t)
    \/ EnsureReadyReturn(t)
    \/ ReindexLoad(t)
    \/ EmbedAcquire(t)
    \/ BuildEmbedded(t)
    \/ PublishState(t)
    \/ PublishClear(t)
    \/ SaveSnapshot(t)
    \/ SearchRevision(t)
    \/ SearchLookup(t)
    \/ SearchAssert(t)
    \/ SearchRouteOnly(t)
    \/ QueryEmbedded(t)
    \/ SearchRetrieve(t)
    \/ SearchStore(t)
    \/ OpenDocset(t)
    \/ OpenIndex(t)
    \/ AssetPath(t)
    \/ Docsets(t)

LockNext == \E t \in Threads : LockStep(t)

\* the lock that a thread at this position is about to take, if any
WaitsFor(pc) ==
    CASE pc \in {"er_lock", "ri_lock"} -> "reindex"
      [] pc \in {"ld_state", "ri_pub_state"} -> "state"
      [] pc \in {"ri_embed", "s_embed"} -> "embed"
      [] OTHER -> "none"

\* thread t is inside a call and does not wait for a lock that is held
CanProceed(t) ==
    /\ thr[t].pc # "idle"
    /\ WaitsFor(thr[t].pc) = "reindex" => _reindex_lock = "free"
    /\ WaitsFor(thr[t].pc) = "state" => _state_lock = "free"
    /\ WaitsFor(thr[t].pc) = "embed" => _embed_lock = "free"

\* thread t takes a step of its call
Proceeds(t) == thr[t].pc # "idle" /\ LockStep(t)

\* The registry read, the parsing, the embedder and the snapshot I/O
\* terminate, and a free lock is given to a thread that waits for it: a
\* thread that can proceed from some moment on does proceed.
LockSpec ==
    /\ LockInit
    /\ [][LockNext]_vars
    /\ \A t \in Threads : <>[]CanProceed(t) => []<><<Proceeds(t)>>_vars

(***************************************************************************)
(* Direct calls of the functions of engine.py: a call is made with         *)
(* arguments drawn from the sets below and returns once.                   *)
(***************************************************************************)
MaxTextWords == 7
MaxChunkWords == 4

\* 25 words, the length of the longest text that is chunked
WordNames ==
    <<"w1", "w2", "w3", "w4", "w5", "w6", "w7", "w8", "w9", "w10", "w11", "w12",
      "w13", "w14", "w15", "w16", "w17", "w18", "w19", "w20", "w21", "w22",
      "w23", "w24", "w25">>

\* the texts of n words: single spaces, or whitespace before the first
\* word, after the last word, or a longer run of whitespace inside
TextsOf(n) ==
    LET plain == Join(SubSeq(WordNames, 1, n))
    IN  { plain, <<" ">> \o plain, plain \o <<" ">>, <<" ">> \o plain \o <<" ">> }

ChunkCalls ==
    { [fn |-> "_chunk_words", text |-> text, max_words |-> mw, overlap_words |-> ow] :
        text \in UNION {TextsOf(n) : n \in 0..MaxTextWords},
        mw \in 1..MaxChunkWords, ow \in 0..(MaxChunkWords - 1) }
    \cup { [fn |-> "_chunk_words", text |-> Join(WordNames),
             max_words |-> 10, overlap_words |-> 3] }

MaxRouterK == 3

\* a docset of the registry with these keywords and tags
RouterDocset(id, keywords, tags) ==
    [docset_id |-> id, root_path |-> <<"/", "d", id>>, tags |-> tags,
     keywords |-> keywords, version |-> None, enabled |-> TRUE]

\* A(keywords = pandas), B(tags = python), C(keywords = PANDAS, tags = Python)
RouterDocsets ==
    { RouterDocset("A", << <<"p", "a", "n", "d", "a", "s">> >>, <<>>),
      RouterDocset("B", <<>>, << <<"p", "y", "t", "h", "o", "n">> >>),
      RouterDocset("C", << <<"P", "A", "N", "D", "A", "S">> >>, << <<"P", "y", "t", "h", "o", "n">> >>) }

\* the docset maps: the docsets above, some or all, in any order
RouterMaps ==
    { ds \in UNION {[1..n -> RouterDocsets] : n \in 0..3} :
        \A i, j \in 1..Len(ds) : i # j => ds[i] # ds[j] }

\* "how do I use pandas", "Python", "x"
RouterQueries ==
    { <<"h", "o", "w", " ", "d", "o", " ", "I", " ", "u", "s", "e", " ", "p", "a", "n", "d", "a", "s">>,
      <<"P", "y", "t", "h", "o", "n">>,
      <<"x">> }

RouterCalls ==
    { [fn |-> "_route_docsets", docsets |-> ds, query |-> q, source_hint |-> h,
       deps |-> deps, max_k |-> k] :
        ds \in RouterMaps, q \in RouterQueries,
        h \in {None, Some(<<>>), Some(<<"b">>), Some(<<"B">>)},
        deps \in {{}, { <<"P", "a", "n", "d", "a", "s", "=", "=", "2">> }},
        k \in 1..MaxRouterK }

MaxSrcComps == 3

\* the path components a src is made of: "..", ".", "a", ".a", "", "c:"
SrcComps == { DotDot, <<".">>, <<"a">>, <<".", "a">>, <<>>, <<"c", ":">> }

\* the src attributes: up to MaxSrcComps components joined by "/", as they
\* are or behind a leading "/" or "\\"; and srcs with a scheme, a fragment,
\* a query string, whitespace or a backslash
AssetSrcs ==
    { prefix \o JoinStrings(comps, "/") :
        prefix \in {<<>>, <<"/">>, <<"\\">>},
        comps \in UNION {[1..n -> SrcComps] : n \in 0..MaxSrcComps} }
    \cup { <<"http://", "a">>, <<"https://", "a">>, <<"data:", "a">>,
           <<" ", "a", " ">>, <<"a", "#", "b">>, <<"a", "?", "b">>, <<"#", "a">>,
           <<".", ".", "\\", "a">> }

AssetCalls ==
    { [fn |-> "_resolve_assets",
       assets |-> << [src |-> src, alt |-> None, caption |-> None, path |-> None] >>,
       file_path |-> file_path] :
        src \in AssetSrcs, file_path \in { <<"f">>, <<"d", "/", "f">> } }

MaxPathComps == 3

\* the components a relative_path is made of: "..", ".", "f", "img", "a",
\* "out", "in", "dA"
PathComps ==
    { DotDot, <<".">>, <<"f">>, <<"img">>, <<"a">>, <<"out">>, <<"in">>, <<"d", "A">> }

\* the relative_path arguments: up to MaxPathComps components joined by
\* "/"; and "../etc/passwd", paths behind a separator, paths with a colon,
\* a name with a backslash inside
RelativePaths ==
    { JoinStrings(comps, "/") :
        comps \in UNION {[1..n -> PathComps] : n \in 0..MaxPathComps} }
    \cup { <<".", ".", "/", "etc", "/", "passwd">>,
           <<"/", "f">>, <<"/", "d", "A", "/", "f">>, <<"\\", "f">>,
           <<"c", ":", "/", "f">>, <<"c", ":", "f">>, <<"f", ":">>,
           <<"img", "\\", "a">> }

AssetPathCalls ==
    { [fn |-> "asset_path", docset_id |-> d, relative_path |-> rp, links |-> links] :
        d \in {"A", "C"}, rp \in RelativePaths, links \in {NoLinks, SomeLinks} }

\* the documentation trees a docset is built from in a direct call
BuildTrees == {1, 2, 3, 4}

ReindexCalls ==
    { [fn |-> "_reindex_impl", bytes |-> bytes, fs |-> fs, st |-> st] :
        bytes \in RegistryFiles, fs \in [DocsetIds -> BuildTrees],
        st \in SettingsChoices }

MaxHits == 3

\* a chunk met by the retrieval, with its raw scores
Hits ==
    [doc_ref : {"r1", "r2"}, bm25_score : {0, 1, 4}, vector_score : {0, 3}]

\* top_k of a SearchRequest is None or an integer from 1 to 20
SearchCalls ==
    { [fn |-> "search", hits |-> hits, top_k |-> top_k, results_top_k |-> rk] :
        hits \in UNION {[1..n -> Hits] : n \in 0..MaxHits},
        top_k \in {None, Some(1), Some(2), Some(20)},
        rk \in {1, 8} }

\* score vectors of up to MaxScores chunks, with ties, and k around the size
MaxScores == 4

ScoreVectors == UNION { [1..n -> {0, 1, 2}] : n \in 0..MaxScores }

TopKCalls ==
    { [fn |-> "_top_k_indices", scores |-> scores, k |-> k] :
        scores \in ScoreVectors, k \in (0 - 1)..(MaxScores + 1) }

FnCalls ==
    { c \in ChunkCalls : c.max_words > c.overlap_words }
    \cup RouterCalls
    \cup AssetCalls
    \cup AssetPathCalls
    \cup ReindexCalls
    \cup SearchCalls
    \cup TopKCalls

FnInit ==
    /\ settings = BaseSettings
    /\ registry = <<"A+", "B+">>
    /\ docs = [d \in DocsetIds |-> IF d = "A" THEN 3 ELSE 2]
    /\ snapshot = NoSnapshot
    /\ _state = None
    /\ _revision = 0
    /\ _reindex_lock = "free"
    /\ _state_lock = "free"
    /\ _embed_lock = "free"
    /\ _search_cached = <<>>
    /\ _embed_query_cached = {}
    /\ thr = [t \in Threads |-> Idle]
    /\ result = [t \in Threads |-> NoResult]
    /\ calls = 0
    /\ edits = 0
    /\ restarts = 0
    /\ fn_call \in {Some(c) : c \in FnCalls}
    /\ fn_result = None

\* the call of function fn returns value
Returns(fn, value) ==
    /\ fn_call # None
    /\ fn_call[1].fn = fn
    /\ fn_result = None
    /\ fn_result' = Some(value)
    /\ UNCHANGED <<settings, registry, docs, snapshot, mgr, locks, caches, thr,
                   result, calls, edits, restarts, fn_call>>

ChunkWords ==
    /\ fn_call # None /\ fn_call[1].fn = "_chunk_words"
    /\ LET c == fn_call[1]
       IN  Returns("_chunk_words", _chunk_words(c.text, c.max_words, c.overlap_words))

RouteDocsets ==
    /\ fn_call # None /\ fn_call[1].fn = "_route_docsets"
    /\ LET c == fn_call[1]
       IN  Returns("_route_docsets",
                   RoutingDecision(c.docsets, c.query, c.source_hint, c.deps, c.max_k))

ResolveAssets ==
    /\ fn_call # None /\ fn_call[1].fn = "_resolve_assets"
    /\ LET c == fn_call[1]
       IN  Returns("_resolve_assets", _resolve_assets(c.assets, c.file_path))

\* asset_path on the state that the registry and the documentation of Init
\* give
AssetPathOf ==
    /\ fn_call # None /\ fn_call[1].fn = "asset_path"
    /\ LET c == fn_call[1]
       IN  Returns("asset_path",
                   asset_path(_load_docsets(registry, docs).docsets, c.docset_id,
                              c.relative_path, FsFiles(docs), c.links))

\* the first reindex of a manager (no previous state, revision 0), up to
\* the IndexState that it publishes
FirstReindex ==
    /\ fn_call # None /\ fn_call[1].fn = "_reindex_impl"
    /\ LET c == fn_call[1]
       IN  Returns("_reindex_impl", _reindex_impl(None, c.bytes, c.fs, c.st, None, 0))

\* the retrieval has met these chunks: candidates, rerank, the first k
SearchRerank ==
    /\ fn_call # None /\ fn_call[1].fn = "search"
    /\ LET c == fn_call[1]
       IN  Returns("search",
                   SearchResults(c.hits, c.top_k,
                                 [settings EXCEPT !.results_top_k = c.results_top_k]))

\* _top_k_indices returns one of the lists that numpy can give
TopKIndices ==
    /\ fn_call # None /\ fn_call[1].fn = "_top_k_indices"
    /\ LET c == fn_call[1]
       IN  \E indices \in _top_k_indices(c.scores, c.k) :
               Returns("_top_k_indices", indices)

FnNext ==
    \/ ChunkWords
    \/ RouteDocsets
    \/ ResolveAssets
    \/ AssetPathOf
    \/ FirstReindex
    \/ SearchRerank
    \/ TopKIndices

FnSpec == FnInit /\ [][FnNext]_vars

(***************************************************************************)
(* The claims.                                                             *)
(***************************************************************************)

\* C1: every search that computes its result (no cache hit) routes and
\* retrieves on one single IndexState: the state whose docset map was routed
\* on is the state whose indexes were retrieved from.
SearchOnSingleState ==
    \A t \in Threads :
        (result[t].op = "search" /\ result[t].outcome = "ok" /\ ~result[t].hit)
            => result[t].value.routedOn = result[t].value.retrievedOn

\* C2: no search that has read the revision ends in a failed internal
\* assertion or in a lookup of a docset that is missing, whatever the other
\* thread publishes meanwhile.
SearchSafeUnderPublish ==
    \A t \in Threads :
        result[t].op = "search"
            => result[t].outcome \notin {"AssertionError", "KeyError"}

\* C5: a search never returns a cached result stored under revision r once a
\* state with a revision greater than r is published: at the moment of a
\* cache hit the revision of the key is the revision of the published state.
CacheHitOnLiveRevision ==
    \A t \in Threads :
        (result[t].op = "search" /\ result[t].outcome = "ok" /\ result[t].hit)
            => result[t].key = result[t].live

\* the step is a step of thread t that runs _reindex_impl up to its publish
RunsReindexImpl(t) ==
    /\ thr[t].pc \in {"ri_lock", "ri_load"}
    /\ thr'[t] # thr[t]

\* the docsets the registry file enables, read off its entries
EnabledIn(bytes) ==
    {TokenId(bytes[i]) :
        i \in {j \in 1..Len(bytes) : bytes[j] # "#" /\ Docset(bytes[j]).enabled}}

\* the registry file is one that no registry loads from: no entry, the same
\* id twice, or an enabled docset whose documentation root is missing
InvalidRegistry(bytes, fs) ==
    LET entries == {i \in 1..Len(bytes) : bytes[i] # "#"}
    IN  \/ entries = {}
        \/ \E i, j \in entries : i # j /\ TokenId(bytes[i]) = TokenId(bytes[j])
        \/ \E i \in entries : Docset(bytes[i]).enabled /\ fs[TokenId(bytes[i])] = 0

\* the docsets a reindex with these ids has to build
ToBuild(ids) ==
    {d \in EnabledIn(registry) :
        \/ ids = None
        \/ d \in ids[1]
        \/ _state = None
        \/ d \notin DOMAIN _state[1].indexes}

\* the reasons of C3 for a reindex to fail before its publish
FailsBeforePublish(ids) ==
    \/ InvalidRegistry(registry, docs)
    \/ EnabledIn(registry) = {}
    \/ (ids # None /\ ~(ids[1] \subseteq EnabledIn(registry)))
    \/ \E d \in ToBuild(ids) : DocTree(docs[d]) = <<>>

\* C3: a reindex that fails before its publish step (invalid registry, no
\* enabled docset, a requested id unknown or disabled, a docset whose build
\* fails because it yields no chunk) ends in an error and leaves the
\* published state, the revision counter, both caches and the snapshot file
\* as they were; nothing built in the attempt is visible.
FailedReindexPublishesNothing ==
    [][\A t \in Threads :
          (RunsReindexImpl(t) /\ FailsBeforePublish(IdsOf(t)))
              => /\ thr'[t].pc = "idle"
                 /\ result'[t].outcome = "ValueError"
                 /\ UNCHANGED <<_state, _revision, _search_cached,
                                _embed_query_cached, snapshot>>]_vars

\* C3 witness: a reindex failed in the build of the second docset after the
\* first was built, while an earlier state stays published with its cache
FailedAfterPartialBuild ==
    \E t \in Threads :
        /\ result[t].op = "reindex"
        /\ result[t].outcome = "ValueError"
        /\ result[t].stage = "build"
        /\ result[t].built # {}
        /\ _state # None
        /\ _revision = _state[1].revision
        /\ _search_cached # <<>>

\* the step is the publish of _reindex_impl by thread t
Publishes(t) == thr[t].pc = "ri_pub_state" /\ thr'[t].pc = "ri_pub_clear"

\* the step is the publish of _load_snapshot by thread t
Loads(t) == thr[t].pc = "ld_state" /\ thr'[t].pc = "ld_clear"

\* the revision a reader finds published; 0 while no state is published
PublishedRevision(state) == IF state = None THEN 0 ELSE state[1].revision

\* C4: within one process every publish of a reindex publishes a state whose
\* revision is the previous revision plus one (the revision of a loaded
\* snapshot counts as the previous one, no state as 0), a snapshot is loaded
\* only while no state is published, nothing else changes the published
\* state, so no reader sees the revision decrease, and the revision counter
\* always equals the revision of the published state.
RevisionStrictlyIncreases ==
    /\ [](_revision = PublishedRevision(_state))
    /\ [][restarts' = restarts =>
            /\ \A t \in Threads :
                  Publishes(t) =>
                      /\ _state' # None
                      /\ _state'[1].revision = PublishedRevision(_state) + 1
            /\ \A t \in Threads :
                  Loads(t) => _state = None /\ _state' = snapshot.state
            /\ (\A t \in Threads : ~Publishes(t) /\ ~Loads(t)) => _state' = _state
            /\ PublishedRevision(_state') >= PublishedRevision(_state)]_vars

\* C4 witness: a reindex has published revision 2 on top of the revision 1
\* that the process loaded from the snapshot of the process before it
PublishedOnLoadedRevision ==
    \E t, u \in Threads :
        /\ thr[t].pc = "ri_pub_clear"
        /\ thr[t].op = "reindex"
        /\ result[u].op = "ensure_ready"
        /\ result[u].how = "loaded"
        /\ restarts = 1
        /\ _state # None
        /\ _state[1].revision = 2
        /\ _revision = 2

\* the positions of a thread inside a snapshot load or inside a build
InsideLoad == {"ld_state", "ld_clear"}
InsideBuild == {"ri_load", "ri_pub_state", "ri_pub_clear", "ri_save"}

\* C6: at most one thread at a time is inside a build or a snapshot load,
\* started by reindex or by ensure_ready, and it holds the reindex lock; a
\* thread of ensure_ready publishes (by load or by build) only while no state
\* is published, so of the threads that called ensure_ready on a manager
\* without state one makes the state and the others, once they get the lock,
\* return without loading or building.
BuildOrLoadSerialized ==
    /\ [](LET inside == {t \in Threads : thr[t].pc \in InsideLoad \cup InsideBuild}
          IN  /\ Cardinality(inside) <= 1
              /\ \A t \in inside : _reindex_lock = t)
    /\ [][\A t \in Threads :
            /\ (thr[t].op # "reindex" /\ (Publishes(t) \/ Loads(t))) => _state = None
            /\ (thr[t].pc = "er_lock" /\ thr'[t] # thr[t] /\ _state # None
                    /\ restarts' = restarts)
                  => /\ thr'[t].pc \notin InsideLoad \cup InsideBuild
                     /\ thr'[t].how = "waited"
                     /\ UNCHANGED <<_state, _revision, snapshot>>]_vars

\* C6 witness: both threads called ensure_ready on a manager without state;
\* one built or loaded the state, the other waited for the lock and returned
OneMakesTheOtherWaits ==
    \E t, u \in Threads :
        /\ result[t].op = "ensure_ready" /\ result[t].outcome = "ok"
        /\ result[t].how \in {"built", "loaded"}
        /\ result[u].op = "ensure_ready" /\ result[u].outcome = "ok"
        /\ result[u].how = "waited"

\* the snapshot file that _load_snapshot read has the schema version of the
\* code and the signature of the registry and settings of that moment
SnapshotMatches(seen) ==
    /\ seen.kind = "snapshot"
    /\ seen.schema_version = _SNAPSHOT_SCHEMA_VERSION
    /\ seen.signature = seen.current

\* the snapshot file is not there, or it is a snapshot of this schema version
\* whose signature differs
SnapshotMissingOrStale(seen) ==
    \/ seen.kind = "missing"
    \/ /\ seen.kind = "snapshot"
       /\ seen.schema_version = _SNAPSHOT_SCHEMA_VERSION
       /\ seen.signature # seen.current

\* C7: ensure_ready on a manager without state and with a snapshot path: a
\* snapshot whose schema version and signature match is loaded and nothing is
\* built; a missing or stale snapshot makes, with auto_index on, a build of
\* all enabled docsets that is published when it succeeds (never a load), and
\* with auto_index off an error that leaves the state absent; once a state is
\* published a call of ensure_ready returns without a load or a build.
EnsureReadyDecides ==
    /\ [](\A t \in Threads :
            LET r == result[t]
            IN  (r.op = "ensure_ready" /\ r.seen # NotSeen
                    /\ settings.index_snapshot_path # None)
                => /\ SnapshotMatches(r.seen)
                        => r.outcome = "ok" /\ r.how = "loaded" /\ r.built = {}
                   /\ (SnapshotMissingOrStale(r.seen) /\ settings.auto_index)
                        => /\ r.how # "loaded"
                           /\ r.outcome = "ok" => r.how = "built" /\ r.built # {}
                           /\ r.outcome # "ok" => r.outcome \in {"ValueError", "OSError"}
                   /\ (SnapshotMissingOrStale(r.seen) /\ ~settings.auto_index)
                        => /\ r.outcome = "RuntimeError"
                           /\ r.how = "none"
                           /\ r.built = {})
    /\ [][\A t \in Threads :
            /\ (thr[t].op = "ensure_ready" /\ Publishes(t))
                  => /\ thr[t].built = DocsetIdsOf(thr[t].state[1].docsets)
                     /\ _state' = thr[t].state
            /\ (thr[t].pc = "er_lock" /\ thr'[t].pc = "idle" /\ restarts' = restarts)
                  => /\ result'[t].outcome = "RuntimeError"
                     /\ _state = None /\ _state' = None
            /\ (thr'[t].op = "ensure_ready" /\ thr[t].pc \in {"idle", "er_lock"}
                    /\ thr'[t] # thr[t] /\ _state # None /\ restarts' = restarts)
                  => thr'[t].pc = "return"]_vars

\* C7 witness: ensure_ready met a stale snapshot with auto_index on, built
\* every enabled docset and returned
StaleSnapshotRebuilt ==
    \E t \in Threads :
        /\ result[t].op = "ensure_ready"
        /\ result[t].outcome = "ok"
        /\ result[t].seen # NotSeen
        /\ result[t].seen.kind = "snapshot"
        /\ result[t].seen.signature # result[t].seen.current
        /\ result[t].how = "built"
        /\ result[t].built = {"A", "B"}
        /\ settings.auto_index

\* C8: a snapshot is loaded only when the registry path, the registry bytes,
\* the embedding model, chunk_words and chunk_overlap_words of the loading
\* manager are those the snapshot was saved under; if any of them differs the
\* snapshot is not loaded.
SnapshotLoadedForSameInputsOnly ==
    \A t \in Threads :
        (result[t].op = "ensure_ready" /\ result[t].how = "loaded")
            => result[t].seen.saved = result[t].seen.loader

\* the parts of a DocsetIndex that C9 names
IndexContent(index) ==
    [sections |-> index.sections, chunks |-> index.chunks,
     doc_ref_to_chunk |-> index.doc_ref_to_chunk, bm25 |-> index.bm25,
     embeddings |-> index.embeddings]

\* C9: a reindex with a list of ids that succeeds makes a state that holds
\* the docsets the reloaded registry enables and no other; an enabled docset
\* outside the list that the previous state had an index for keeps its
\* sections, chunks, doc_ref lookup, BM25 structure and embeddings (it is not
\* built); an enabled docset of the list, or one without previous index, gets
\* the index built from the documentation as it is now; and that state is the
\* one published.
PartialReindexCarriesOver ==
    [][\A t \in Threads :
          /\ (thr[t].op = "reindex" /\ thr[t].arg # None
                 /\ thr[t].pc = "ri_lock" /\ thr'[t].pc = "ri_pub_state")
                => LET ids == thr[t].arg[1]
                       new == thr'[t].state[1]
                       enabled == EnabledIn(registry)
                   IN  /\ DocsetIdsOf(new.docsets) = enabled
                       /\ DOMAIN new.indexes = enabled
                       /\ DOMAIN new.doc_ref_to_docset =
                             UNION {ChunkRefs(new.indexes[d]) : d \in enabled}
                       /\ \A d \in enabled :
                             IF d \notin ids /\ _state # None
                                   /\ d \in DOMAIN _state[1].indexes
                             THEN /\ IndexContent(new.indexes[d])
                                        = IndexContent(_state[1].indexes[d])
                                  /\ d \notin thr'[t].built
                             ELSE LET fresh == _build_docset_index(
                                                  DocsetById(new.docsets, d),
                                                  docs[d], settings)
                                  IN  /\ fresh.ok
                                      /\ new.indexes[d] = fresh.index[1]
                                      /\ d \in thr'[t].built
          /\ (thr[t].op = "reindex" /\ Publishes(t)) => _state' = thr[t].state]_vars

\* C9 witness: reindex(["B"]) has published a state in which B is built
\* afresh and A keeps the index of the previous state, which is not the index
\* that a build from the documentation of A as it is now gives
CarriedOverDespiteEdit ==
    \E t \in Threads :
        /\ thr[t].pc = "ri_pub_clear"
        /\ thr[t].op = "reindex"
        /\ thr[t].arg = Some({"B"})
        /\ thr[t].built = {"B"}
        /\ _state = thr[t].state
        /\ "A" \in DOMAIN _state[1].indexes
        /\ LET fresh == _build_docset_index(_state[1].indexes["A"].docset,
                                            docs["A"], settings)
           IN  fresh.ok /\ fresh.index[1].chunks # _state[1].indexes["A"].chunks

\* C10: an open that got past ensure_ready ends with the section or with
\* KeyError, and its outcome is what the lookup of the doc_ref gives on one
\* published state: the state it read first or the state it read second
\* (the same state unless a reindex published in between).
OpenOnOnePublishedState ==
    \A t \in Threads :
        LET r == result[t]
        IN  (r.op = "open" /\ "onFirst" \in DOMAIN r)
                => /\ r.outcome \in {"ok", "KeyError"}
                   /\ [outcome |-> r.outcome, section |-> r.section]
                         \in {r.onFirst, r.onSecond}

\* C10 witness: a reindex published between the two reads of an open and the
\* lookup gives on the state after it another outcome than on the state
\* before it
OpenAcrossPublish ==
    \E t \in Threads :
        /\ result[t].op = "open"
        /\ "onFirst" \in DOMAIN result[t]
        /\ result[t].onFirst # result[t].onSecond
        /\ result[t].onFirst.outcome = "ok"

\* the call of function fn that has returned
Returned(fn) == fn_call # None /\ fn_call[1].fn = fn /\ fn_result # None

\* the words of the chunks one after the other, each chunk without its first
\* `overlap` words
RECURSIVE WordsAfterOverlap(_, _)
WordsAfterOverlap(chunks, overlap) ==
    IF chunks = <<>> THEN <<>>
    ELSE LET w == Split(Head(chunks))
         IN  SubSeq(w, overlap + 1, Len(w)) \o WordsAfterOverlap(Tail(chunks), overlap)

\* C16: for every text and every max_words > overlap_words >= 0, the words
\* of the first chunk followed by the words of each later chunk without its
\* first overlap_words words are exactly the whitespace-split words of the
\* text, in order: no word is lost, repeated or moved.
ChunksCoverTheText ==
    Returned("_chunk_words")
        => LET c == fn_call[1]
               chunks == fn_result[1]
           IN  /\ chunks # <<>>
               /\ Split(Head(chunks))
                     \o WordsAfterOverlap(Tail(chunks), c.overlap_words)
                  = Split(c.text)

\* C16 witness: a text with whitespace around its words was cut into three
\* chunks or more that overlap
OverlappingChunksReturned ==
    /\ Returned("_chunk_words")
    /\ Len(fn_result[1]) >= 3
    /\ fn_call[1].overlap_words >= 2
    /\ Head(fn_call[1].text) = " "

\* C20: a text of more than max_words words is cut into the windows that
\* start at word 0, step, 2*step, ... with step = max_words - overlap_words;
\* each window holds at most max_words words, the last window is the first
\* one that reaches the last word, and every window after the first holds a
\* word no earlier window holds.  With max_words 10 and overlap 3 a text of
\* 25 words gives the windows [0,10), [7,17), [14,24), [21,25).  A text of
\* at most max_words words gives exactly one chunk.
WindowsStepUntilLastWord ==
    Returned("_chunk_words")
        => LET c == fn_call[1]
               chunks == fn_result[1]
               words == Split(c.text)
               n == Len(words)
               step == c.max_words - c.overlap_words
               start(j) == (j - 1) * step
               end(j) == Min(start(j) + c.max_words, n)
           IN  /\ n <= c.max_words
                     => Len(chunks) = 1 /\ Split(chunks[1]) = words
               /\ n > c.max_words
                     => /\ \A j \in 1..Len(chunks) :
                              /\ Split(chunks[j]) = SubSeq(words, start(j) + 1, end(j))
                              /\ Len(Split(chunks[j])) <= c.max_words
                              /\ j < Len(chunks) => end(j) < n
                              /\ j > 1 => end(j) > end(j - 1)
                        /\ end(Len(chunks)) = n
               /\ (n = 25 /\ c.max_words = 10 /\ c.overlap_words = 3)
                     => [j \in 1..Len(chunks) |-> Split(chunks[j])]
                           = << SubSeq(words, 1, 10), SubSeq(words, 8, 17),
                                SubSeq(words, 15, 24), SubSeq(words, 22, 25) >>

\* C20 witness: the text of 25 words was cut with max_words 10 and overlap 3
\* into four chunks
TwentyFiveWordsChunked ==
    /\ Returned("_chunk_words")
    /\ Len(Split(fn_call[1].text)) = 25
    /\ fn_call[1].max_words = 10
    /\ fn_call[1].overlap_words = 3
    /\ Len(fn_result[1]) = 4

\* C17: the router selects the docsets of strictly positive score in
\* descending order of score, docsets of equal score in the order of the
\* map, cut to the first max_k; when no docset has a positive score it
\* selects the first max_k docsets of the map in order; the selection is
\* never empty for a non-empty map and max_k >= 1; the reasons are those of
\* the selected docsets, and a reason is "fallback" exactly when the score
\* of its docset is 0.
RouterSelectsByScore ==
    Returned("_route_docsets")
        => LET c == fn_call[1]
               r == fn_result[1]
               sel == r.selected_docsets
               n == Len(c.docsets)
               positive == {i \in 1..n : r.scores[i] > 0}
               pos(j) == CHOOSE i \in 1..n : c.docsets[i].docset_id = sel[j]
               Before(i, k) ==
                   \/ r.scores[i] > r.scores[k]
                   \/ (r.scores[i] = r.scores[k] /\ i < k)
           IN  /\ \A j \in 1..Len(sel) : sel[j] \in DocsetIdsOf(c.docsets)
               /\ positive # {}
                     => /\ Len(sel) = Min(c.max_k, Cardinality(positive))
                        /\ \A j \in 1..Len(sel) : pos(j) \in positive
                        /\ \A j, k \in 1..Len(sel) : j < k => Before(pos(j), pos(k))
                        /\ \A i \in positive \ {pos(j) : j \in 1..Len(sel)} :
                              \A j \in 1..Len(sel) : Before(pos(j), i)
               /\ positive = {}
                     => sel = [j \in 1..Min(c.max_k, n) |-> c.docsets[j].docset_id]
               /\ (n >= 1 /\ c.max_k >= 1) => sel # <<>>
               /\ DOMAIN r.reasons = {sel[j] : j \in 1..Len(sel)}
               /\ \A j \in 1..Len(sel) :
                     (r.reasons[sel[j]] = <<"fallback">>) <=> (r.scores[pos(j)] = 0)

\* C17 witness: three docsets have a positive score, two of them the same
\* one, and the router returned two: the second selected has the score of
\* the docset that was cut off
TieCutAtMaxK ==
    /\ Returned("_route_docsets")
    /\ LET c == fn_call[1]
           r == fn_result[1]
           sel == r.selected_docsets
       IN  /\ Len(c.docsets) = 3
           /\ \A i \in 1..3 : r.scores[i] > 0
           /\ c.max_k = 2
           /\ Len(sel) = 2
           /\ \E i \in 1..3 :
                 /\ c.docsets[i].docset_id \notin {sel[1], sel[2]}
                 /\ \E k \in 1..3 : c.docsets[k].docset_id = sel[2]
                                      /\ r.scores[k] = r.scores[i]

\* the strings are equal but for the case of their letters
EqualNoCase(a, b) ==
    /\ Len(a) = Len(b)
    /\ \A i \in 1..Len(a) : LowerChar(a[i]) = LowerChar(b[i])

\* needle is a substring of hay but for the case of the letters
ContainsNoCase(hay, needle) ==
    \E off \in 0..(Len(hay) - Len(needle)) :
        EqualNoCase(SubSeq(hay, off + 1, off + Len(needle)), needle)

\* C18: the score of a docset is 100 if source_hint is its docset_id but for
\* case, plus 10 for each of its keywords that is in the query but for case,
\* plus 3 for each of its tags that is in the query but for case, plus 15
\* for each of its keywords that is in some dependency but for case.  Of
\* A(keywords = pandas) and B(tags = python) with the query "how do I use
\* pandas" A ranks above B, and with source_hint "B" B ranks above A.
RouterScoreFormula ==
    Returned("_route_docsets")
        => LET c == fn_call[1]
               r == fn_result[1]
               sel == r.selected_docsets
               n == Len(c.docsets)
               ids == [i \in 1..n |-> c.docsets[i].docset_id]
               a == CHOOSE i \in 1..n : ids[i] = "A"
               b == CHOOSE i \in 1..n : ids[i] = "B"
           IN  /\ \A i \in 1..n :
                     LET d == c.docsets[i]
                     IN  r.scores[i] =
                           (IF c.source_hint # None
                                 /\ EqualNoCase(c.source_hint[1], <<d.docset_id>>)
                            THEN 100 ELSE 0)
                           + 10 * Cardinality({k \in 1..Len(d.keywords) :
                                     ContainsNoCase(c.query, d.keywords[k])})
                           + 3 * Cardinality({k \in 1..Len(d.tags) :
                                     ContainsNoCase(c.query, d.tags[k])})
                           + 15 * Cardinality({k \in 1..Len(d.keywords) :
                                     \E dep \in c.deps :
                                        ContainsNoCase(dep, d.keywords[k])})
               /\ ({ids[i] : i \in 1..n} = {"A", "B"}
                      /\ c.query = <<"h", "o", "w", " ", "d", "o", " ", "I", " ", "u", "s", "e", " ", "p", "a", "n", "d", "a", "s">>
                      /\ c.deps = {})
                     => /\ c.source_hint = None
                              => r.scores[a] > r.scores[b] /\ sel = <<"A">>
                        /\ c.source_hint = Some(<<"B">>)
                              => /\ r.scores[b] > r.scores[a]
                                 /\ sel = Take(<<"B", "A">>, c.max_k)

\* C18 witness: A and B were routed for "how do I use pandas" with source_hint
\* "B", and B came before A
HintPutsBFirst ==
    /\ Returned("_route_docsets")
    /\ DocsetIdsOf(fn_call[1].docsets) = {"A", "B"}
    /\ fn_call[1].query = <<"h", "o", "w", " ", "d", "o", " ", "I", " ", "u", "s", "e", " ", "p", "a", "n", "d", "a", "s">>
    /\ fn_call[1].source_hint = Some(<<"B">>)
    /\ fn_result[1].selected_docsets = <<"B", "A">>

\* the path is a normalized relative POSIX path that stays inside the root:
\* not empty, no leading "/", no drive prefix, no empty, "." or ".." component
NormalizedInsideRoot(path) ==
    /\ path # <<>>
    /\ Head(path) # "/"
    /\ ~(Len(path) >= 2 /\ path[2] = ":")
    /\ \A i \in 1..Len(SplitOn(path, "/")) :
          SplitOn(path, "/")[i] \notin {<<>>, <<".">>, DotDot}

\* the src is an http:, https: or data: reference, or "../.."
SchemeOrAboveRoot(src) ==
    \/ (src # <<>> /\ Head(src) \in SchemePrefixes)
    \/ src = <<".", ".", "/", ".", ".">>

\* C12: every path that asset resolution gives to an asset is null or a
\* normalized relative POSIX path inside the docset root (no ".." component,
\* not absolute, no drive prefix); a src with the scheme http:, https: or
\* data:, and the src "../..", get a null path.
AssetPathStaysInsideRoot ==
    Returned("_resolve_assets")
        => \A i \in 1..Len(fn_result[1]) :
              LET asset == fn_result[1][i]
              IN  /\ asset.path # None => NormalizedInsideRoot(asset.path[1])
                  /\ SchemeOrAboveRoot(asset.src) => asset.path = None

\* the src is relative: it has no scheme and, cleaned of fragment, query
\* string and whitespace, it is not empty and begins with no separator
RelativeSrc(src) ==
    LET clean == Strip(BeforeFirst(BeforeFirst(src, "#"), "?"))
    IN  /\ clean # <<>>
        /\ Head(clean) \notin SchemePrefixes \cup {"/", "\\"}

\* C13: a relative src is joined with the POSIX parent directory of the
\* file of its section and "." and ".." are collapsed; when the result is
\* empty, ".", ".." or begins with "../" the path is null, otherwise the path
\* is exactly that result: a src that climbs above the docset root gets a
\* null path and a name that starts with a dot keeps its dot.
RelativeSrcResolvesToNormalizedJoin ==
    Returned("_resolve_assets")
        => \A i \in 1..Len(fn_result[1]) :
              LET asset == fn_result[1][i]
                  clean == ReplaceChar(
                              Strip(BeforeFirst(BeforeFirst(asset.src, "#"), "?")),
                              "\\", "/")
                  joined == normpath(JoinUnderParent(fn_call[1].file_path, clean))
              IN  RelativeSrc(asset.src)
                    => asset.path =
                          IF \/ joined \in {<<>>, <<".">>, DotDot}
                             \/ (Len(joined) >= 3
                                   /\ SubSeq(joined, 1, 3) = <<".", ".", "/">>)
                          THEN None
                          ELSE Some(joined)

\* the canonical location of the path relative_path under the root "/d<id>":
\* the components are walked from "/", ".." steps to the parent, a symbolic
\* link to the place it points to
CanonicalUnder(docset_id, relative_path, links) ==
    ResolvePath(<<>>, << <<"d", docset_id>> >> \o SplitOn(relative_path, "/"), links)

\* the canonical location lies at or below the root "/d<id>"
AtOrBelowRoot(docset_id, location) ==
    location # <<>> /\ Head(location) = <<"d", docset_id>>

\* C14: asset_path returns a path only when the docset is known and the
\* path is an existing regular file at its canonical location beneath the
\* root of that docset.  For a known docset a relative_path that begins
\* with a separator, holds a colon (drive prefix) or has its canonical
\* location outside the root ends in ValueError, and a path inside the root
\* that names no regular file in FileNotFoundError; an unknown docset ends
\* in KeyError.
AssetPathOnlyBeneathRoot ==
    Returned("asset_path")
        => LET c == fn_call[1]
               r == fn_result[1]
               rp == c.relative_path
               known == c.docset_id \in EnabledIn(registry)
               location == CanonicalUnder(c.docset_id, rp, c.links)
               invalid == \/ (rp # <<>> /\ Head(rp) \in {"/", "\\"})
                          \/ \E i \in 1..Len(rp) : rp[i] = ":"
                          \/ ~AtOrBelowRoot(c.docset_id, location)
           IN  /\ r.outcome = "ok"
                     => /\ known
                        /\ r.target = Some(location)
                        /\ location \in FsFiles(docs)
                        /\ AtOrBelowRoot(c.docset_id, location)
                        /\ Len(location) >= 2
               /\ ~known => r.outcome = "KeyError"
               /\ (known /\ invalid) => r.outcome = "ValueError"
               /\ (known /\ ~invalid /\ location \notin FsFiles(docs))
                     => r.outcome = "FileNotFoundError"
               /\ (known /\ rp = <<".", ".", "/", "etc", "/", "passwd">>)
                     => r.outcome = "ValueError"

\* C14 witness: a path that leaves the root and comes back to a file in it
\* was resolved to that file
PathReentersRoot ==
    /\ Returned("asset_path")
    /\ Len(fn_call[1].relative_path) >= 2
    /\ SubSeq(fn_call[1].relative_path, 1, 2) = DotDot
    /\ fn_result[1].outcome = "ok"

\* C11: in every IndexState that a reindex publishes no two chunks have the
\* same doc_ref, in one docset or in two, and the sections of a docset have
\* section_refs of their own: the index holds as many sections as the
\* documentation has headings.  This holds for every set of files, a file
\* with two headings of the same text and heading path and without id
\* attribute included.
RefsAreUnique ==
    (Returned("_reindex_impl") /\ fn_result[1].outcome = "ok")
        => LET state == fn_result[1].state[1]
               ids == DOMAIN state.indexes
               chunks(d) == state.indexes[d].chunks
           IN  /\ \A d, e \in ids :
                     \A i \in 1..Len(chunks(d)), j \in 1..Len(chunks(e)) :
                        (d # e \/ i # j) => chunks(d)[i].doc_ref # chunks(e)[j].doc_ref
               /\ \A d \in ids :
                     Cardinality(DOMAIN state.indexes[d].sections)
                        = Len(DocTree(fn_call[1].fs[d]))

\* C15: when the index holds exactly one chunk, so that the retrieval of a
\* search meets that chunk and no other, the search returns that chunk with
\* a score strictly greater than zero.
SingleChunkScoresAboveZero ==
    (Returned("search") /\ Len(fn_call[1].hits) = 1)
        => LET results == fn_result[1].results
           IN  /\ Len(results) = 1
               /\ results[1].doc_ref = fn_call[1].hits[1].doc_ref
               /\ results[1].score.num > 0

\* C19: the BM25 scores and the vector scores of the candidate pool are
\* min-max normalized each on their own (all zeros when max - min < 1e-6),
\* the score of a result is 0.45 * bm25_n + 0.55 * vec_n and lies in [0, 1],
\* the results come in non-increasing order of score, no two results have
\* the same doc_ref, and there are min(k, number of candidates) results,
\* where k is the top_k of the request, or results_top_k without top_k.
FusedScoresRankTheResults ==
    Returned("search")
        => LET c == fn_call[1]
               pool == fn_result[1].candidates
               results == fn_result[1].results
               k == IF c.top_k # None THEN c.top_k[1] ELSE c.results_top_k
               bm25 == {pool[i].bm25_score : i \in 1..Len(pool)}
               vec == {pool[i].vector_score : i \in 1..Len(pool)}
               least(S) == CHOOSE v \in S : \A w \in S : v <= w
               spread(S) == (CHOOSE v \in S : \A w \in S : v >= w) - least(S)
               \* the normalized value of v among S is above(v, S) / over(S)
               above(v, S) == IF spread(S) < MinSpread THEN 0 ELSE v - least(S)
               over(S) == IF spread(S) < MinSpread THEN 1 ELSE spread(S)
           IN  /\ Len(results) = Min(k, Len(pool))
               /\ \A i, j \in 1..Len(results) :
                     i # j => results[i].doc_ref # results[j].doc_ref
               /\ \A i \in 1..Len(results) :
                     LET score == results[i].score
                     IN  /\ score.den > 0
                         /\ 0 <= score.num /\ score.num <= score.den
                         /\ \E j \in 1..Len(pool) :
                               /\ pool[j].doc_ref = results[i].doc_ref
                               /\ score.num * 100 * over(bm25) * over(vec)
                                    = score.den
                                      * (45 * above(pool[j].bm25_score, bm25) * over(vec)
                                         + 55 * above(pool[j].vector_score, vec) * over(bm25))
               /\ \A i \in 1..(Len(results) - 1) :
                     results[i].score.num * results[i + 1].score.den
                        >= results[i + 1].score.num * results[i].score.den

\* C19 witness: a chunk was met twice, the pool of three candidates has
\* BM25 scores that spread over less than 1e-6 and vector scores that do
\* not, and top_k = 2 cut the results to two of different score
PoolFusedAndCut ==
    /\ Returned("search")
    /\ Len(fn_call[1].hits) = 3
    /\ Len(fn_result[1].candidates) = 2
    /\ {fn_result[1].candidates[i].bm25_score : i \in 1..2} = {0, 1}
    /\ fn_call[1].top_k = Some(2)
    /\ Len(fn_result[1].results) = 2
    /\ fn_result[1].results[1].score.num > fn_result[1].results[2].score.num

\* the indices 0..n-1 of a score vector by descending score, equal scores
\* by ascending index
RankedIndices(scores) ==
    LET n == Len(scores)
        Before(a, b) == scores[a + 1] > scores[b + 1]
                            \/ (scores[a + 1] = scores[b + 1] /\ a < b)
    IN  CHOOSE p \in IndexPermutations(n) :
            \A i \in 1..(n - 1) : Before(p[i], p[i + 1])

\* C21: the top-k selection over a score vector of length n returns min(k, n)
\* distinct indices whose scores are the k largest, by descending score and,
\* for equal scores, by ascending index; all indices in that order for
\* k >= n, none for k <= 0 or n = 0.
TopKByScoreThenIndex ==
    Returned("_top_k_indices")
        => LET scores == fn_call[1].scores
               k == fn_call[1].k
               n == Len(scores)
           IN  fn_result[1] =
                    IF k <= 0 \/ n = 0 THEN <<>>
                    ELSE SubSeq(RankedIndices(scores), 1, Min(k, n))

\* the last call of thread t was a reindex, or a build of ensure_ready, whose
\* snapshot write failed
SaveFailed(t) == result[t].outcome = "OSError" /\ result[t].stage = "save"

\* C22: a reindex publishes the new state before it persists the snapshot:
\* the publish sets the state of revision previous + 1 and leaves the
\* snapshot file, the caches are cleared next, and the file is written only
\* with the state that is already live.  A failure of the write makes the
\* call raise and undoes nothing: the new state stays live, the counter
\* keeps previous + 1, the caches are not restored, the lock is released.
\* While that state is live, every search called after the failure is
\* answered from it.
PublishSurvivesSaveFailure ==
    /\ [][\A t \in Threads :
            /\ Publishes(t)
                  => /\ snapshot' = snapshot
                     /\ _state' = thr[t].state
                     /\ _state'[1].revision = PublishedRevision(_state) + 1
                     /\ _revision' = _revision + 1
            /\ (thr[t].pc = "ri_pub_clear" /\ thr'[t].pc = "ri_save")
                  => _search_cached' = <<>> /\ _embed_query_cached' = {}
            /\ (thr[t].pc = "ri_save" /\ snapshot' # snapshot)
                  => _state = thr[t].state /\ snapshot'.state = _state
            /\ (thr[t].pc = "ri_save" /\ thr'[t].pc = "idle"
                    /\ result'[t].outcome # "ok")
                  => /\ result'[t].outcome = "OSError"
                     /\ _state' = thr[t].state
                     /\ _revision' = thr[t].state[1].revision
                     /\ UNCHANGED <<_state, _revision, _search_cached,
                                    _embed_query_cached, snapshot>>
                     /\ _reindex_lock' = "free"]_vars
    /\ [](\A t, u \in Threads :
            (/\ SaveFailed(t)
             /\ u # t
             /\ _revision = result[t].revision
             /\ calls > result[t].calls
             /\ result[u].op = "search")
                => /\ _state # None
                   /\ _state[1].revision = result[t].revision
                   /\ result[u].outcome = "ok"
                   /\ result[u].key = result[t].revision
                   /\ result[u].value.routedOn = result[t].revision
                   /\ result[u].value.retrievedOn = result[t].revision)

\* C22 witness: the snapshot write of the reindex that published revision 2
\* failed, and a search called afterwards was computed on revision 2
SearchAfterFailedSave ==
    \E t, u \in Threads :
        /\ SaveFailed(t)
        /\ result[t].op = "reindex"
        /\ result[t].revision = 2
        /\ u # t
        /\ calls > result[t].calls
        /\ _revision = 2
        /\ result[u].op = "search"
        /\ result[u].outcome = "ok"
        /\ ~result[u].hit
        /\ result[u].value.retrievedOn = 2

\* the docsets that a state built from these registry bytes holds
EnabledDocsets(bytes) ==
    SelectSeq(_load_docsets(bytes, docs).docsets, LAMBDA d : d.enabled)

\* C23: whenever _load_snapshot accepts a snapshot (its signature equals the
\* signature of the registry file and settings of that moment), the
\* IndexState in it was built from those registry contents: its docsets are
\* the docsets that registry enables.  This holds also when the registry file
\* was modified while the reindex that saved the snapshot was running, after
\* it read the registry and before it computed the signature.
AcceptedSnapshotBuiltFromRegistry ==
    \A t \in Threads :
        thr[t].pc = "ld_state"
            => thr[t].state[1].docsets = EnabledDocsets(thr[t].seen.loader[1].bytes)

\* an IndexState is consistent in itself
ConsistentState(state) ==
    LET ids == DocsetIdsOf(state.docsets)
        refs(d) == ChunkRefs(state.indexes[d])
        map == state.doc_ref_to_docset
    IN  /\ Cardinality(ids) = Len(state.docsets)
        /\ DOMAIN state.indexes = ids
        /\ DOMAIN map = UNION {refs(d) : d \in ids}
        /\ \A ref \in DOMAIN map : \A d \in ids : ref \in refs(d) <=> d = map[ref]
        /\ \A d \in ids :
              LET index == state.indexes[d]
              IN  /\ Len(index.chunks) >= 1
                  /\ \A i \in 1..Len(index.chunks) :
                        index.chunks[i].section_ref \in DOMAIN index.sections

\* C24: every IndexState that a full or partial reindex publishes is
\* consistent in itself: the docsets map and the indexes map have the same
\* keys, which are the docsets that the registry read by the reindex enables;
\* the keys of doc_ref_to_docset are the doc_refs of all chunks of all
\* indexes, each mapped to the docset whose index holds the chunk; the
\* section_ref of every chunk is a key of the sections of its index; and
\* every index has at least one chunk.
PublishedStateConsistent ==
    /\ [](_state # None => ConsistentState(_state[1]))
    /\ [][\A t \in Threads :
            /\ (thr[t].pc \in {"ri_lock", "ri_load"} /\ thr'[t].pc = "ri_pub_state")
                  => /\ DocsetIdsOf(thr'[t].state[1].docsets) = EnabledIn(registry)
                     /\ ConsistentState(thr'[t].state[1])
            /\ Publishes(t) => _state' = thr[t].state]_vars

\* C24 witness: a reindex of docset B alone has published revision 2, which
\* holds the index of B built afresh and an index carried over
PartialReindexPublished ==
    \E t \in Threads :
        /\ result[t].op = "reindex"
        /\ result[t].arg = Some({"B"})
        /\ result[t].outcome = "ok"
        /\ result[t].built = {"B"}
        /\ _state # None
        /\ _state[1].revision = 2
        /\ DOMAIN _state[1].indexes = {"A", "B"}
        /\ Cardinality(DOMAIN _state[1].doc_ref_to_docset) > 2

\* the locks that thread t holds
HeldBy(t) ==
    (IF _reindex_lock = t THEN {"reindex"} ELSE {})
        \cup (IF _state_lock = t THEN {"state"} ELSE {})
        \cup (IF _embed_lock = t THEN {"embed"} ELSE {})

\* C25: no interleaving of ensure_ready, reindex, search, open, asset_path and
\* docsets calls deadlocks.  A thread holds the state lock or the embed lock
\* together with no other lock but the reindex lock, takes the reindex lock
\* while it holds none, and takes the state lock or the embed lock while it
\* holds at most the reindex lock; it never waits for a lock that it holds; a
\* thread whose call has returned or raised holds no lock; while a call is
\* running some thread can take a step; and every call returns or raises in
\* the end.
CallsNeverDeadlock ==
    /\ [](\A t \in Threads :
            /\ ~({"state", "embed"} \subseteq HeldBy(t))
            /\ WaitsFor(thr[t].pc) \notin HeldBy(t)
            /\ WaitsFor(thr[t].pc) = "reindex" => HeldBy(t) = {}
            /\ WaitsFor(thr[t].pc) \in {"state", "embed"}
                => HeldBy(t) \subseteq {"reindex"}
            /\ thr[t].pc = "idle" => HeldBy(t) = {})
    /\ []((\E t \in Threads : thr[t].pc # "idle")
            => \E t \in Threads : CanProceed(t))
    /\ \A t \in Threads : (thr[t].pc # "idle") ~> (thr[t].pc = "idle")

\* C25 witness: a search waits for the embed lock, which a build holds
\* inside the reindex lock
SearchWaitsForBuild ==
    \E t, u \in Threads :
        /\ thr[t].op = "search"
        /\ thr[t].pc = "s_embed"
        /\ thr[u].pc = "ri_embedding"
        /\ HeldBy(u) = {"reindex", "embed"}

====
